---- MODULE Spec2Model ----
(***************************************************************************)
(* A model of huangstc/sgf_parser: the escape-aware scanner FindFirst, the *)
(* node consumer ConsumeNode, the tree builder ParseToCollection, the      *)
(* record extractor SimpleParseSgf with HandleProperty, and GameRecord     *)
(* (src/sgf_parser/parser.cc, src/unnamed/part_001), with the later tree   *)
(* builder ParseToRoot (src/unnamed/part_002).                             *)
(*                                                                         *)
(* Text is a sequence of one-character strings; offsets are 0-based as in  *)
(* the code, so the character at offset i of s is s[i + 1].                *)
(***************************************************************************)
EXTENDS Integers, Sequences, FiniteSets, TLC

VARIABLES
  sgf,              \* the input text (string_view sgf)
  entry,            \* the function called: "ParseToCollection", "ParseToRoot",
                    \* "SimpleParseSgf", or "SimpleParseSgfFurthest" for the
                    \* SimpleParseSgf of src/unnamed/part_002
  errors_in,        \* the errors argument as passed: [null, text], text its lines
  doc,              \* the items the input was written from (ValidSpec), else <<>>
  pc,               \* position in the tree builder / node consumer loops
  cursor,           \* ParseToCollection's cursor
  p,                \* the local p of the iteration that ran last
  cn_cursor,        \* ConsumeNode's cursor
  current_property, \* ConsumeNode's current_property (index in the node, 0 = nullptr)
  trees,            \* the GameTree objects; trees[Root] is the virtual root
  current_tree,     \* index in trees, NullTree = nullptr
  tree_collection,  \* the caller's TreeCollection (indices in trees)
  errors,           \* the lines of the caller's errors string (none when it is null)
  result,           \* the value returned: "true" or "false", NoResult while running
  record_in,        \* the record argument as passed to SimpleParseSgf
  unparsed_in,      \* the unparsed argument as passed: [null, items]
  record,           \* the caller's GameRecord
  unparsed,         \* the pairs of the caller's unparsed vector (none when it is null)
  sps_current,      \* SimpleParseSgf's current (index in trees)
  sps_prop,         \* SimpleParseSgf's place in the properties of current
  path,             \* the later SimpleParseSgf's path (indices in trees, leaf first)
  handicap_stones,  \* the vector handicap_stones at namespace scope
  moves,            \* the vector moves at namespace scope
  finished,         \* history: the calls that returned before this one
  steps,            \* history: transitions taken so far
  opened,           \* history: trees opened so far (calls of NewChild)
  closed            \* history: trees closed so far (moves to the parent)

\* What the caller passes in; no operation changes it.
input == <<sgf, entry, errors_in, doc, record_in, unparsed_in>>

\* What the record extractor works on; the tree builder leaves it alone.
extraction == <<record, unparsed, sps_current, sps_prop, path>>

\* What outlives a call: the objects at namespace scope, and the calls made so far.
session == <<handicap_stones, moves, finished>>

vars == <<input, session, extraction, pc, cursor, p, cn_cursor, current_property, trees,
          current_tree, tree_collection, errors, result, steps, opened, closed>>

----------------------------------------------------------------------------
(* Bounds of the model. *)

\* Longest input of the exhaustive specification.
MaxLen == 6

(* Characters: one representative of every class the code distinguishes. *)
Alphabet == {"(", ")", ";", "[", "]", "\\", " ", "a"}

----------------------------------------------------------------------------
(* string_view helpers *)

\* string_view::npos, the all-ones size_type, written as its two's complement reading.
NPOS == -1

\* Mutant: the cursor is set to p, not to the offset after it.
SizeSame(x) == IF x = NPOS THEN 0 ELSE x

\* p + 1 on a size_type: npos + 1 wraps to 0.
SizeInc(x) == IF x = NPOS THEN 0 ELSE x + 1

\* absl::ascii_isspace
IsSpace(c) == c \in {" ", "\t", "\n", "\r", "\f"}

\* sgf.substr(start, len)
Substr(s, start, len) == SubSeq(s, start + 1, start + len)

RECURSIVE StripLeadingAsciiWhitespace(_)
StripLeadingAsciiWhitespace(s) ==
  IF s # <<>> /\ IsSpace(Head(s)) THEN StripLeadingAsciiWhitespace(Tail(s)) ELSE s

RECURSIVE StripTrailingAsciiWhitespace(_)
StripTrailingAsciiWhitespace(s) ==
  IF s # <<>> /\ IsSpace(s[Len(s)])
  THEN StripTrailingAsciiWhitespace(SubSeq(s, 1, Len(s) - 1))
  ELSE s

\* Mutant: the identifier is taken as it stands, whitespace around it included.
SubstrUnstripped(s, start, len) == Substr(s, start, len)

SubstrAndStripWhitespace(s, start, len) ==
  StripTrailingAsciiWhitespace(StripLeadingAsciiWhitespace(Substr(s, start, len)))

RECURSIVE FindFirstFrom(_, _, _, _, _)
FindFirstFrom(s, start, targets, expect_contents, escaping) ==
  IF start = NPOS \/ start >= Len(s) THEN NPOS
  ELSE IF escaping THEN FindFirstFrom(s, start + 1, targets, expect_contents, FALSE)
  ELSE LET cur == s[start + 1]
       IN IF cur = "\\" THEN FindFirstFrom(s, start + 1, targets, expect_contents, TRUE)
          ELSE IF cur \in targets THEN start
          ELSE IF ~expect_contents /\ ~IsSpace(cur) THEN NPOS
          ELSE FindFirstFrom(s, start + 1, targets, expect_contents, FALSE)

\* Mutant: a scan that gives the backslash no meaning.
RECURSIVE FindFirstNoEscape(_, _, _, _)
FindFirstNoEscape(s, start, targets, expect_contents) ==
  IF start = NPOS \/ start >= Len(s) THEN NPOS
  ELSE LET cur == s[start + 1]
       IN IF cur \in targets THEN start
          ELSE IF ~expect_contents /\ ~IsSpace(cur) THEN NPOS
          ELSE FindFirstNoEscape(s, start + 1, targets, expect_contents)

FindFirst(s, start, targets, expect_contents) ==
  FindFirstFrom(s, start, targets, expect_contents, FALSE)

----------------------------------------------------------------------------
(* Characters and numbers *)

\* The characters of codes 32 to 126, in order of their codes ("grave" holds the
\* place of code 96, which a string of this notation cannot hold).
Printable ==
  <<
     " ", "!", "\"", "#", "$", "%", "&", "'", "(", ")", "*", "+", ",", "-", ".", "/",
     "0", "1", "2", "3", "4", "5", "6", "7", "8", "9", ":", ";", "<", "=", ">", "?",
     "@", "A", "B", "C", "D", "E", "F", "G", "H", "I", "J", "K", "L", "M", "N", "O",
     "P", "Q", "R", "S", "T", "U", "V", "W", "X", "Y", "Z", "[", "\\", "]", "^", "_",
     "grave", "a", "b", "c", "d", "e", "f", "g", "h", "i", "j", "k", "l", "m", "n", "o",
     "p", "q", "r", "s", "t", "u", "v", "w", "x", "y", "z", "{", "|", "}", "~"
  >>

\* The code of a character (a char of the code's strings).
Ord(c) ==
  CASE c = "\t" -> 9
    [] c = "\n" -> 10
    [] c = "\f" -> 12
    [] c = "\r" -> 13
    [] OTHER -> 31 + (CHOOSE i \in DOMAIN Printable : Printable[i] = c)

Chr(n) == Printable[n - 31]

\* absl::ascii_toupper, absl::ascii_tolower
AsciiToUpper(c) == IF Ord(c) \in Ord("a")..Ord("z") THEN Chr(Ord(c) - 32) ELSE c
AsciiToLower(c) == IF Ord(c) \in Ord("A")..Ord("Z") THEN Chr(Ord(c) + 32) ELSE c

\* absl::AsciiStrToUpper, absl::AsciiStrToLower
AsciiStrToUpper(s) == [i \in DOMAIN s |-> AsciiToUpper(s[i])]
AsciiStrToLower(s) == [i \in DOMAIN s |-> AsciiToLower(s[i])]

\* A sequence of characters as one string (for StrCat into a message).
RECURSIVE Str(_)
Str(s) == IF s = <<>> THEN "" ELSE Head(s) \o Str(Tail(s))

\* Mutant: the values are joined with nothing between them.
RECURSIVE StrJoinNoSeparator(_)
StrJoinNoSeparator(values) ==
  IF values = <<>> THEN <<>> ELSE Head(values) \o StrJoinNoSeparator(Tail(values))

\* absl::StrJoin(values, ",")
RECURSIVE StrJoin(_)
StrJoin(values) ==
  IF values = <<>> THEN <<>>
  ELSE IF Len(values) = 1 THEN Head(values)
  ELSE Head(values) \o <<",">> \o StrJoin(Tail(values))

IsDigit(c) == Ord(c) \in Ord("0")..Ord("9")

\* The number of digits of s from position i (1-based) on.
RECURSIVE DigitRun(_, _)
DigitRun(s, i) == IF i <= Len(s) /\ IsDigit(s[i]) THEN 1 + DigitRun(s, i + 1) ELSE 0

\* The value of a run of digits.
RECURSIVE DigitsValue(_)
DigitsValue(s) ==
  IF s = <<>> THEN 0
  ELSE 10 * DigitsValue(SubSeq(s, 1, Len(s) - 1)) + (Ord(s[Len(s)]) - Ord("0"))

Int32Max == 2147483647
Int32Min == -2147483647 - 1

\* safe_parse_positive_int and safe_parse_negative_int, base 10, from position i
\* on: a value that would leave the range of int is refused at the limit.
RECURSIVE ParsePositive(_, _, _)
ParsePositive(s, i, value) ==
  IF i > Len(s) THEN [ok |-> TRUE, value |-> value]
  ELSE LET digit == Ord(s[i]) - Ord("0")
       IN IF value > Int32Max \div 10 THEN [ok |-> FALSE, value |-> Int32Max]
          ELSE IF value * 10 > Int32Max - digit THEN [ok |-> FALSE, value |-> Int32Max]
          ELSE ParsePositive(s, i + 1, value * 10 + digit)

RECURSIVE ParseNegative(_, _, _)
ParseNegative(s, i, value) ==
  IF i > Len(s) THEN [ok |-> TRUE, value |-> value]
  ELSE LET digit == Ord(s[i]) - Ord("0")
       IN IF 0 - value > Int32Max \div 10 THEN [ok |-> FALSE, value |-> Int32Min]
          ELSE IF value * 10 < Int32Min + digit THEN [ok |-> FALSE, value |-> Int32Min]
          ELSE ParseNegative(s, i + 1, value * 10 - digit)

\* absl::SimpleAtoi into an int: whitespace around, one sign, decimal digits, and
\* nothing else; a value outside int is refused.
SimpleAtoi(s) ==
  LET t == StripTrailingAsciiWhitespace(StripLeadingAsciiWhitespace(s))
      signed == t # <<>> /\ t[1] \in {"+", "-"}
      negative == t # <<>> /\ t[1] = "-"
      body == IF signed THEN Tail(t) ELSE t
  IN IF body = <<>> \/ DigitRun(body, 1) # Len(body)
     THEN [ok |-> FALSE, value |-> 0]
     ELSE IF negative THEN ParseNegative(body, 1, 0) ELSE ParsePositive(body, 1, 0)

\* The conversion of an int to GoCoord (int16_t).
ToInt16(n) == ((n + 32768) % 65536) - 32768

\* A float, written as the decimal m * 10^e it was read from, in lowest terms.
RECURSIVE Float(_, _)
Float(m, e) ==
  IF m = 0 THEN [m |-> 0, e |-> 0]
  ELSE IF e < 0 /\ m % 10 = 0 THEN Float(m \div 10, e + 1)
  ELSE [m |-> m, e |-> e]

Negated(f) == [m |-> 0 - f.m, e |-> f.e]

\* The digits of SimpleAtof: body is what follows the sign.
AtofMagnitude(body, negative) ==
  LET n1 == DigitRun(body, 1)
      point == Len(body) > n1 /\ body[n1 + 1] = "."
      n2 == IF point THEN DigitRun(body, n1 + 2) ELSE 0
      used == n1 + (IF point THEN 1 + n2 ELSE 0)
      digits == SubSeq(body, 1, n1) \o SubSeq(body, n1 + 2, n1 + 1 + n2)
      magnitude == Float(DigitsValue(digits), 0 - n2)
      number == IF negative THEN Negated(magnitude) ELSE magnitude
  IN IF n1 + n2 = 0 THEN [ok |-> FALSE, value |-> Float(0, 0)]
     ELSE [ok |-> used = Len(body), value |-> number]

\* The sign of SimpleAtof: t is the text without the whitespace around it.
AtofSign(t) ==
  LET plus == t # <<>> /\ t[1] = "+"
      u == IF plus THEN Tail(t) ELSE t
      negative == u # <<>> /\ u[1] = "-"
  IN IF plus /\ negative THEN [ok |-> FALSE, value |-> Float(0, 0)]
     ELSE AtofMagnitude(IF negative THEN Tail(u) ELSE u, negative)

\* absl::SimpleAtof on the decimal notation (digits, one point, one sign; the
\* inputs of the model hold no exponent, "inf" or "nan"): whitespace around is
\* dropped, a "+" is skipped unless a "-" follows, and the whole of the rest has
\* to be a number. value is what *out holds afterwards, on failure too.
SimpleAtof(s) == AtofSign(StripTrailingAsciiWhitespace(StripLeadingAsciiWhitespace(s)))

----------------------------------------------------------------------------
(* Trees *)

NullTree == 0
Root == 1
\* The errors argument: no string, or a string holding these lines.
NullErrors == [null |-> TRUE, text |-> <<>>]
ErrorsString(lines) == [null |-> FALSE, text |-> lines]
NoResult == "running"

\* GameTree(p): parent p, no nodes, no children.
GameTree(parent) == [parent |-> parent, sequence |-> <<>>, children |-> <<>>]

\* Mutant: the child is put before its siblings.
NewChildFirst(ts, current) ==
  Append([ts EXCEPT ![current].children = <<Len(ts) + 1>> \o @], GameTree(current))

\* NewChild: the trees after it; the child is the last one.
NewChild(ts, current) ==
  Append([ts EXCEPT ![current].children = Append(@, Len(ts) + 1)], GameTree(current))

\* NewNode: an empty node at the end of current's sequence.
NewNode(ts, current) == [ts EXCEPT ![current].sequence = Append(@, <<>>)]

\* Property(pid): identifier pid, no values.
Property(pid) == [id |-> pid, values |-> <<>>]

\* Mutant: a property is added only when the node has none of that name yet.
NewPropertyOncePerId(ts, current, pid) ==
  LET node == ts[current].sequence[Len(ts[current].sequence)]
  IN IF \E i \in DOMAIN node : node[i].id = pid
     THEN ts
     ELSE [ts EXCEPT ![current].sequence[Len(ts[current].sequence)] = Append(@, Property(pid))]

\* NewProperty on the node ConsumeNode was given, the last node of current.
NewProperty(ts, current, pid) ==
  [ts EXCEPT ![current].sequence[Len(ts[current].sequence)] = Append(@, Property(pid))]

\* Mutant: an empty value is not stored.
AddValueUnlessEmpty(ts, current, prop, value) ==
  IF value = <<>> THEN ts
  ELSE [ts EXCEPT ![current].sequence[Len(ts[current].sequence)][prop].values =
                    Append(@, value)]

\* current_property->values.emplace_back(value)
AddValue(ts, current, prop, value) ==
  [ts EXCEPT ![current].sequence[Len(ts[current].sequence)][prop].values = Append(@, value)]

\* The node ConsumeNode is filling: the last node of current.
NodeOf(ts, current) == ts[current].sequence[Len(ts[current].sequence)]
Node == NodeOf(trees, current_tree)

\* LOG_ERROR on the errors argument.
LogError(errs, msg) == IF errors_in.null THEN errs ELSE Append(errs, msg)

----------------------------------------------------------------------------
(* GameRecord and HandleProperty *)

\* GameRecord::GameRecord(): the default-constructed record.
GameRecord ==
  [board_width |-> 0, board_height |-> 0, komi |-> Float(0, 0), handicap |-> 0,
   timelimit |-> -1, black_stones |-> <<>>, white_stones |-> <<>>, moves |-> <<>>,
   result |-> Float(0, 0), resigned |-> FALSE,
   black_name |-> <<>>, black_rank |-> <<>>, white_name |-> <<>>,
   white_rank |-> <<>>, date |-> <<>>, rule |-> <<>>]

\* GameRecord::Reset()
ResetRecord(rec) ==
  [rec EXCEPT !.board_width = 0, !.board_height = 0, !.komi = Float(0, 0),
              !.handicap = 0, !.timelimit = -1, !.result = Float(0, 0),
              !.resigned = FALSE,
              !.black_name = <<>>, !.black_rank = <<>>, !.white_name = <<>>,
              !.white_rank = <<>>, !.date = <<>>, !.rule = <<>>]

\* GoMove(c, ps, mv)
GoMove(c, ps, mv) == [player |-> c, pass |-> ps, move |-> mv]

\* The unparsed argument: no vector, or a vector holding these pairs.
NullUnparsed == [null |-> TRUE, items |-> <<>>]
UnparsedVector(items) == [null |-> FALSE, items |-> items]

\* What a call of HandleProperty leaves: its return value, the record and the
\* unparsed vector after it, and the message it logged ("" when it logged none).
Handled(rec, unp) == [ok |-> TRUE, record |-> rec, unparsed |-> unp, msg |-> ""]
Refused(rec, unp, msg) == [ok |-> FALSE, record |-> rec, unparsed |-> unp, msg |-> msg]

\* Mutant: the two coordinates change places.
CoordinatesFlipped(lower) == <<Ord(lower[2]) - Ord("a"), Ord(lower[1]) - Ord("a")>>

\* lower[0] - 'a', lower[1] - 'a'
Coordinates(lower) == <<Ord(lower[1]) - Ord("a"), Ord(lower[2]) - Ord("a")>>

\* The loop of the AB and AW branch over prop.values.
RECURSIVE AddStones(_, _, _, _)
AddStones(values, stones, rec, unp) ==
  IF values = <<>> THEN Handled(rec, unp)
  ELSE LET lower == AsciiStrToLower(Head(values))
       IN IF Len(lower) # 2 THEN Refused(rec, unp, "Bad coordinate.")
          ELSE AddStones(Tail(values), stones,
                         [rec EXCEPT ![stones] = Append(@, Coordinates(lower))], unp)

\* The loop of the B and W branch over prop.values.
RECURSIVE AddMoves(_, _, _, _)
AddMoves(values, color, rec, unp) ==
  IF values = <<>> THEN Handled(rec, unp)
  ELSE LET lower == AsciiStrToLower(Head(values))
       IN IF lower = <<>>
          THEN AddMoves(Tail(values), color,
                        [rec EXCEPT !.moves = Append(@, GoMove(color, TRUE, <<-1, -1>>))], unp)
          ELSE IF Len(lower) # 2
          THEN Refused(rec, unp, "Bad coordinate:" \o Str(Head(values)))
          ELSE AddMoves(Tail(values), color,
                        [rec EXCEPT !.moves = Append(@, GoMove(color, FALSE, Coordinates(lower)))],
                        unp)

\* The RE branch, on the one value of the property.
HandleResult(value, rec, unp) ==
  LET re == AsciiStrToUpper(value)
      head == SubSeq(re, 1, IF Len(re) < 3 THEN Len(re) ELSE 3)
      score == SimpleAtof(SubSeq(re, 3, Len(re)))
  IN IF head = <<"B", "+", "R">>
     THEN Handled([rec EXCEPT !.result = Float(12, -1), !.resigned = TRUE], unp)
     ELSE IF head = <<"W", "+", "R">>
     THEN Handled([rec EXCEPT !.result = Float(-12, -1), !.resigned = TRUE], unp)
     ELSE IF Len(re) >= 3
     THEN IF ~score.ok THEN Refused(rec, unp, "Bad result (RU) value.")
          ELSE IF re[1] = "B" THEN Handled([rec EXCEPT !.result = score.value], unp)
          ELSE IF re[1] = "W" THEN Handled([rec EXCEPT !.result = Negated(score.value)], unp)
          ELSE Refused(rec, unp, "Bad result (RU) value.")
     ELSE Refused(rec, unp, "Bad result (RU) value.")

\* HandleProperty(prop, record, unparsed, errors)
HandleProperty(prop, rec, unp) ==
  LET id == AsciiStrToUpper(prop.id)
      one == Len(prop.values) = 1
      int == SimpleAtoi(prop.values[1])
      float == SimpleAtof(prop.values[1])
  IN CASE id = <<"S", "Z">> ->
            IF ~one THEN Refused(rec, unp, "Bad SZ property.")
            ELSE IF ~int.ok THEN Refused(rec, unp, "Bad SZ value.")
            ELSE Handled([rec EXCEPT !.board_width = ToInt16(int.value),
                                     !.board_height = ToInt16(int.value)], unp)
       [] id = <<"H", "A">> ->
            IF ~one THEN Refused(rec, unp, "Bad HA property.")
            ELSE IF ~int.ok THEN Refused(rec, unp, "Bad HA value.")
            ELSE Handled([rec EXCEPT !.handicap = int.value], unp)
       [] id = <<"T", "M">> ->
            IF ~one THEN Refused(rec, unp, "Bad TM property.")
            ELSE IF ~int.ok THEN Refused(rec, unp, "Bad TM value.")
            ELSE Handled([rec EXCEPT !.timelimit = int.value], unp)
       [] id = <<"K", "M">> ->
            IF ~one THEN Refused(rec, unp, "Bad Komi property.")
            ELSE IF ~float.ok
            THEN Refused([rec EXCEPT !.komi = float.value], unp, "Bad Komi value.")
            ELSE Handled([rec EXCEPT !.komi = float.value], unp)
       [] id = <<"R", "U">> ->
            IF ~one THEN Refused(rec, unp, "Bad rule.")
            ELSE Handled([rec EXCEPT !.rule = prop.values[1]], unp)
       [] id \in {<<"P", "B">>, <<"B", "T">>} ->
            IF ~one THEN Refused(rec, unp, "Bad black name value.")
            ELSE Handled([rec EXCEPT !.black_name = prop.values[1]], unp)
       [] id \in {<<"P", "W">>, <<"W", "T">>} ->
            IF ~one THEN Refused(rec, unp, "Bad white name value.")
            ELSE Handled([rec EXCEPT !.white_name = prop.values[1]], unp)
       [] id = <<"B", "R">> ->
            IF ~one THEN Refused(rec, unp, "Bad black rank.")
            ELSE Handled([rec EXCEPT !.black_rank = prop.values[1]], unp)
       [] id = <<"W", "R">> ->
            IF ~one THEN Refused(rec, unp, "Bad white rank.")
            ELSE Handled([rec EXCEPT !.white_rank = prop.values[1]], unp)
       [] id = <<"D", "T">> ->
            IF ~one THEN Refused(rec, unp, "Bad date.")
            ELSE Handled([rec EXCEPT !.date = prop.values[1]], unp)
       [] id = <<"R", "E">> ->
            IF ~one THEN Refused(rec, unp, "Bad result (RU) property.")
            ELSE HandleResult(prop.values[1], rec, unp)
       [] id = <<"A", "B">> -> AddStones(prop.values, "black_stones", rec, unp)
       [] id = <<"A", "W">> -> AddStones(prop.values, "white_stones", rec, unp)
       [] id = <<"B">> -> AddMoves(prop.values, "BLACK", rec, unp)
       [] id = <<"W">> -> AddMoves(prop.values, "WHITE", rec, unp)
       [] OTHER ->
            IF unparsed_in.null THEN Handled(rec, unp)
            ELSE Handled(rec, Append(unp, <<id, StrJoin(prop.values)>>))

\* The properties of a tree in the order the nested loops of SimpleParseSgf meet them.
RECURSIVE Flatten(_)
Flatten(nodes) == IF nodes = <<>> THEN <<>> ELSE Head(nodes) \o Flatten(Tail(nodes))

(* src/unnamed/part_002 holds a later SimpleParseSgf: it builds the trees with  *)
(* ParseToRoot, follows the path to the leaf GetFurthestLeaf picks, and its     *)
(* HandleProperty differs from the one above in the TM, KM and RE branches.     *)

\* The score branch of RE in the later HandleProperty: re is the value in upper
\* case and score what SimpleAtof made of re.substr(2).
HandleScoreLenient(re, score, rec, unp) ==
  IF ~score.ok
  THEN Refused(rec, unp, "Bad result (RE) value: failed in parsing score.")
  ELSE IF re[1] = "B" THEN Handled([rec EXCEPT !.result = score.value], unp)
  ELSE IF re[1] = "W" THEN Handled([rec EXCEPT !.result = Negated(score.value)], unp)
  ELSE Refused(rec, unp, "Bad result (RE) value: unknown color.")

\* The RE branch of the later HandleProperty, on the one value of the property.
HandleResultLenient(value, rec, unp) ==
  LET re == AsciiStrToUpper(value)
      head == SubSeq(re, 1, IF Len(re) < 3 THEN Len(re) ELSE 3)
  IN IF head \in {<<"B", "+", "R">>, <<"B", "+", "T">>, <<"B", "+", "F">>}
     THEN Handled([rec EXCEPT !.result = Float(12, -1), !.resigned = TRUE], unp)
     ELSE IF head \in {<<"W", "+", "R">>, <<"W", "+", "T">>, <<"W", "+", "F">>}
     THEN Handled([rec EXCEPT !.result = Float(-12, -1), !.resigned = TRUE], unp)
     ELSE IF Len(re) >= 3
     THEN HandleScoreLenient(re, SimpleAtof(SubSeq(re, 3, Len(re))), rec, unp)
     ELSE Refused(rec, unp, "Bad result (RE) value: value too short.")

\* The value a number parser made, or fallback when it failed.
ValueOr(parsed, fallback) == IF parsed.ok THEN parsed.value ELSE fallback

\* Mutant: TM and KM are handled as in parser.cc.
HandlePropertyAsBefore(prop, rec, unp) == HandleProperty(prop, rec, unp)

\* The later HandleProperty: the branches it words as the one above does are
\* taken from there.
HandlePropertyLenient(prop, rec, unp) ==
  LET id == AsciiStrToUpper(prop.id)
      one == Len(prop.values) = 1
  IN CASE id = <<"T", "M">> ->
            IF ~one THEN Refused(rec, unp, "Bad TM property.")
            ELSE Handled([rec EXCEPT !.timelimit = ValueOr(SimpleAtoi(prop.values[1]), 0)],
                         unp)
       [] id = <<"K", "M">> ->
            IF ~one THEN Refused(rec, unp, "Bad Komi property.")
            ELSE Handled([rec EXCEPT
                            !.komi = ValueOr(SimpleAtof(prop.values[1]), Float(65, -1))],
                         unp)
       [] id = <<"R", "E">> ->
            IF ~one THEN Refused(rec, unp, "Bad result (RE) property.")
            ELSE HandleResultLenient(prop.values[1], rec, unp)
       [] OTHER -> HandleProperty(prop, rec, unp)

\* Mutant: a later child that reaches as far as the earlier ones replaces them.
RECURSIVE FurthestOfLast(_, _, _)
FurthestOfLast(rs, furthest_leaf, longest_dist) ==
  IF rs = <<>> THEN [leaf |-> furthest_leaf, dist |-> longest_dist]
  ELSE LET r == Head(rs)
       IN IF r.dist >= longest_dist
          THEN FurthestOfLast(Tail(rs), r.leaf, r.dist)
          ELSE FurthestOfLast(Tail(rs), furthest_leaf, longest_dist)

\* The loop of GetFurthestLeaf over root->children, with the leaf and the
\* distance it holds so far; rs are the pairs GetFurthestLeaf returns for the
\* children still to come.
RECURSIVE FurthestOf(_, _, _)
FurthestOf(rs, furthest_leaf, longest_dist) ==
  IF rs = <<>> THEN [leaf |-> furthest_leaf, dist |-> longest_dist]
  ELSE LET r == Head(rs)
       IN IF r.dist > longest_dist
          THEN FurthestOf(Tail(rs), r.leaf, r.dist)
          ELSE FurthestOf(Tail(rs), furthest_leaf, longest_dist)

\* GetFurthestLeaf(root): the pair it returns.
RECURSIVE GetFurthestLeaf(_, _)
GetFurthestLeaf(ts, root) ==
  IF ts[root].children = <<>> THEN [leaf |-> root, dist |-> Len(ts[root].sequence)]
  ELSE LET children == ts[root].children
           f == FurthestOf([i \in DOMAIN children |-> GetFurthestLeaf(ts, children[i])],
                           NullTree, -1)
       IN [leaf |-> f.leaf, dist |-> f.dist + Len(ts[root].sequence)]

\* The vector path of the later SimpleParseSgf: node and its ancestors below
\* the root, node first.
RECURSIVE PathFrom(_, _)
PathFrom(ts, node) ==
  IF node = Root THEN <<>> ELSE <<node>> \o PathFrom(ts, ts[node].parent)

----------------------------------------------------------------------------
(* The state machines *)

\* A return of SimpleParseSgf, or of a tree builder called by itself.
ReturnToCaller(value) == /\ result' = (IF value THEN "true" ELSE "false")
                         /\ pc' = "DONE"

\* A return of the tree builder: called by SimpleParseSgf, false is passed on to
\* the caller and true lets SimpleParseSgf go on.
Return(value) ==
  IF value /\ entry = "SimpleParseSgf"
  THEN pc' = "SPS_CHECK" /\ UNCHANGED result
  ELSE IF value /\ entry = "SimpleParseSgfFurthest"
  THEN pc' = "SPF_CHECK" /\ UNCHANGED result
  ELSE ReturnToCaller(value)

\* ParseToCollection, state START.
Start ==
  /\ pc = "START"
  /\ steps' = steps + 1
  /\ p' = FindFirst(sgf, cursor, {"("}, FALSE)
  /\ IF p' = NPOS
     THEN /\ errors' = LogError(errors, "Failed in finding a tree start.")
          /\ Return(FALSE)
          /\ UNCHANGED <<cursor, trees, current_tree, opened>>
     ELSE /\ cursor' = SizeInc(p')
          /\ pc' = "TREE_START"
          /\ trees' = NewChild(trees, current_tree)
          /\ current_tree' = Len(trees')
          /\ opened' = opened + 1
          /\ UNCHANGED <<errors, result>>
  /\ UNCHANGED <<input, session, extraction,
                 cn_cursor, current_property, tree_collection, closed>>

\* ParseToCollection, state TREE_START.
TreeStart ==
  /\ pc = "TREE_START"
  /\ steps' = steps + 1
  /\ p' = FindFirst(sgf, cursor, {";"}, FALSE)
  /\ IF p' = NPOS
     THEN /\ errors' = LogError(errors, "Failed in finding a node start.")
          /\ Return(FALSE)
          /\ UNCHANGED cursor
     ELSE /\ pc' = "NODE_START"
          /\ cursor' = SizeInc(p')
          /\ UNCHANGED <<errors, result>>
  /\ UNCHANGED <<input, session, extraction,
                 cn_cursor, current_property, trees, current_tree,
                 tree_collection, opened, closed>>

\* ParseToCollection, state NODE_START: NewNode, and ConsumeNode is entered.
NodeStart ==
  /\ pc = "NODE_START"
  /\ steps' = steps + 1
  /\ trees' = NewNode(trees, current_tree)
  /\ cn_cursor' = cursor
  /\ current_property' = 0
  /\ pc' = "CN_NODE_START"
  /\ UNCHANGED <<input, session, extraction,
                 cursor, p, current_tree, tree_collection, errors, result,
                 opened, closed>>

\* ConsumeNode, state NODE_START.
ConsumeNodeStart ==
  /\ pc = "CN_NODE_START"
  /\ steps' = steps + 1
  /\ p' = FindFirst(sgf, cn_cursor, {"["}, TRUE)
  /\ IF p' = NPOS
     THEN /\ errors' = LogError(errors, "Reach the end of of node.")
          /\ pc' = "CN_RETURN"
          /\ UNCHANGED <<cn_cursor, current_property, trees>>
     ELSE /\ trees' = NewProperty(trees, current_tree,
                                  SubstrAndStripWhitespace(sgf, cn_cursor, p' - cn_cursor))
          /\ current_property' = Len(NodeOf(trees', current_tree))
          /\ pc' = "CN_VALUE_START"
          /\ cn_cursor' = SizeInc(p')
          /\ UNCHANGED errors
  /\ UNCHANGED <<input, session, extraction,
                 cursor, current_tree, tree_collection, result,
                 opened, closed>>

\* ConsumeNode, state VALUE_START.
ConsumeValueStart ==
  /\ pc = "CN_VALUE_START"
  /\ steps' = steps + 1
  /\ p' = FindFirst(sgf, cn_cursor, {"]"}, TRUE)
  /\ IF p' = NPOS
     THEN /\ errors' = LogError(errors, "Missing the end of a property value.")
          /\ pc' = "CN_RETURN"
          /\ UNCHANGED <<cn_cursor, trees>>
     ELSE /\ trees' = AddValue(trees, current_tree, current_property,
                               Substr(sgf, cn_cursor, p' - cn_cursor))
          /\ pc' = "CN_NEXT_VALUE"
          /\ cn_cursor' = SizeInc(p')
          /\ UNCHANGED errors
  /\ UNCHANGED <<input, session, extraction,
                 cursor, current_property, current_tree, tree_collection,
                 result, opened, closed>>

\* Mutant: on "[" the state and the cursor are left as they are.
ConsumeNextValueStuck ==
  /\ pc = "CN_NEXT_VALUE"
  /\ steps' = steps + 1
  /\ LET q == FindFirst(sgf, cn_cursor, {"[", ";", "(", ")"}, TRUE)
         gap == SubstrAndStripWhitespace(sgf, cn_cursor, q - cn_cursor)
     IN IF q = NPOS
        THEN /\ errors' = LogError(errors, "Missing the end of a node.")
             /\ p' = q
             /\ pc' = "CN_RETURN"
             /\ UNCHANGED <<cn_cursor, current_property, trees>>
        ELSE IF sgf[q + 1] = "["
        THEN /\ IF gap # <<>>
                THEN /\ trees' = NewProperty(trees, current_tree, gap)
                     /\ current_property' = Len(NodeOf(trees', current_tree))
                ELSE UNCHANGED <<trees, current_property>>
             /\ p' = q
             /\ UNCHANGED <<pc, cn_cursor, errors>>
        ELSE /\ IF gap # <<>>
                THEN /\ errors' = LogError(errors, "Non-empty contents after the end of a value.")
                     /\ p' = NPOS
                ELSE /\ p' = q
                     /\ UNCHANGED errors
             /\ pc' = "CN_RETURN"
             /\ UNCHANGED <<cn_cursor, current_property, trees>>
  /\ UNCHANGED <<input, session, extraction,
                 cursor, current_tree, tree_collection, result,
                 opened, closed>>

\* Mutant: what stands between a value and the end of the node is let pass.
ConsumeNextValueAnyGap ==
  /\ pc = "CN_NEXT_VALUE"
  /\ steps' = steps + 1
  /\ LET q == FindFirst(sgf, cn_cursor, {"[", ";", "(", ")"}, TRUE)
         gap == SubstrAndStripWhitespace(sgf, cn_cursor, q - cn_cursor)
     IN IF q = NPOS
        THEN /\ errors' = LogError(errors, "Missing the end of a node.")
             /\ p' = q
             /\ pc' = "CN_RETURN"
             /\ UNCHANGED <<cn_cursor, current_property, trees>>
        ELSE IF sgf[q + 1] = "["
        THEN /\ IF gap # <<>>
                THEN /\ trees' = NewProperty(trees, current_tree, gap)
                     /\ current_property' = Len(NodeOf(trees', current_tree))
                ELSE UNCHANGED <<trees, current_property>>
             /\ p' = q
             /\ pc' = "CN_VALUE_START"
             /\ cn_cursor' = SizeInc(q)
             /\ UNCHANGED errors
        ELSE /\ p' = q
             /\ pc' = "CN_RETURN"
             /\ UNCHANGED <<errors, cn_cursor, current_property, trees>>
  /\ UNCHANGED <<input, session, extraction,
                 cursor, current_tree, tree_collection, result,
                 opened, closed>>

\* ConsumeNode, state NEXT_VALUE.
ConsumeNextValue ==
  /\ pc = "CN_NEXT_VALUE"
  /\ steps' = steps + 1
  /\ LET q == FindFirst(sgf, cn_cursor, {"[", ";", "(", ")"}, TRUE)
         gap == SubstrAndStripWhitespace(sgf, cn_cursor, q - cn_cursor)
     IN IF q = NPOS
        THEN /\ errors' = LogError(errors, "Missing the end of a node.")
             /\ p' = q
             /\ pc' = "CN_RETURN"
             /\ UNCHANGED <<cn_cursor, current_property, trees>>
        ELSE IF sgf[q + 1] = "["
        THEN /\ IF gap # <<>>
                THEN /\ trees' = NewProperty(trees, current_tree, gap)
                     /\ current_property' = Len(NodeOf(trees', current_tree))
                ELSE UNCHANGED <<trees, current_property>>
             /\ p' = q
             /\ pc' = "CN_VALUE_START"
             /\ cn_cursor' = SizeInc(q)
             /\ UNCHANGED errors
        ELSE /\ IF gap # <<>>
                THEN /\ errors' = LogError(errors, "Non-empty contents after the end of a value.")
                     /\ p' = NPOS
                ELSE /\ p' = q
                     /\ UNCHANGED errors
             /\ pc' = "CN_RETURN"
             /\ UNCHANGED <<cn_cursor, current_property, trees>>
  /\ UNCHANGED <<input, session, extraction,
                 cursor, current_tree, tree_collection, result,
                 opened, closed>>

\* ParseToCollection, state NODE_START, after ConsumeNode returned p.
NodeReturn ==
  /\ pc = "CN_RETURN"
  /\ steps' = steps + 1
  /\ IF p = NPOS
     THEN /\ errors' = LogError(errors, "Error in parsing a node.")
          /\ Return(FALSE)
          /\ UNCHANGED <<cursor, trees, current_tree, opened, closed>>
     ELSE IF sgf[p + 1] = ";"
     THEN /\ pc' = "NODE_START"
          /\ cursor' = SizeInc(p)
          /\ UNCHANGED <<trees, current_tree, errors, result, opened, closed>>
     ELSE IF sgf[p + 1] = ")"
     THEN /\ current_tree' = trees[current_tree].parent
          /\ IF current_tree' = NullTree
             THEN /\ errors' = LogError(errors, "Trying to going up in the root tree.")
                  /\ Return(FALSE)
                  /\ UNCHANGED <<cursor, closed>>
             ELSE /\ pc' = "NEXT_TREE"
                  /\ cursor' = SizeInc(p)
                  /\ closed' = closed + 1
                  /\ UNCHANGED <<errors, result>>
          /\ UNCHANGED <<trees, opened>>
     ELSE /\ IF sgf[p + 1] = "("
             THEN /\ trees' = NewChild(trees, current_tree)
                  /\ current_tree' = Len(trees')
                  /\ opened' = opened + 1
                  /\ pc' = "TREE_START"
             ELSE UNCHANGED <<trees, current_tree, opened, pc>>
          /\ cursor' = SizeInc(p)
          /\ UNCHANGED <<errors, result, closed>>
  /\ UNCHANGED <<input, session, extraction,
                 p, cn_cursor, current_property, tree_collection>>

\* ParseToCollection, state NEXT_TREE.
NextTree ==
  /\ pc = "NEXT_TREE"
  /\ steps' = steps + 1
  /\ p' = FindFirst(sgf, cursor, {"(", ")"}, FALSE)
  /\ IF p' = NPOS
     THEN /\ pc' = "END"
          /\ cursor' = SizeInc(p')
          /\ UNCHANGED <<trees, current_tree, errors, result, opened, closed>>
     ELSE IF sgf[p' + 1] = "("
     THEN /\ trees' = NewChild(trees, current_tree)
          /\ current_tree' = Len(trees')
          /\ opened' = opened + 1
          /\ pc' = "TREE_START"
          /\ cursor' = SizeInc(p')
          /\ UNCHANGED <<errors, result, closed>>
     ELSE /\ current_tree' = trees[current_tree].parent
          /\ IF current_tree' = NullTree
             THEN /\ errors' = LogError(errors, "Trying to going up in the root tree.")
                  /\ Return(FALSE)
                  /\ UNCHANGED <<cursor, closed>>
             ELSE /\ pc' = "NEXT_TREE"
                  /\ cursor' = SizeInc(p')
                  /\ closed' = closed + 1
                  /\ UNCHANGED <<errors, result>>
          /\ UNCHANGED <<trees, opened>>
  /\ UNCHANGED <<input, session, extraction,
                 cn_cursor, current_property, tree_collection>>

\* Mutant: the trees are handed over without the check of the final state.
EndUnchecked ==
  /\ pc = "END"
  /\ IF entry \in {"ParseToCollection", "SimpleParseSgf"}
     THEN /\ tree_collection' = trees[Root].children
          /\ trees' = [trees EXCEPT ![Root].children = tree_collection]
     ELSE UNCHANGED <<trees, tree_collection>>
  /\ Return(TRUE)
  /\ steps' = steps + 1
  /\ UNCHANGED <<input, session, extraction,
                 cursor, p, cn_cursor, current_property, current_tree,
                 errors, opened, closed>>

\* Mutant: the trees are handed over before the check of the final state.
EndSwapFirst ==
  /\ pc = "END"
  /\ IF entry \in {"ParseToCollection", "SimpleParseSgf"}
     THEN /\ tree_collection' = trees[Root].children
          /\ trees' = [trees EXCEPT ![Root].children = tree_collection]
     ELSE UNCHANGED <<trees, tree_collection>>
  /\ IF current_tree # Root
     THEN /\ errors' = LogError(errors, "Parser ends with a bad state.")
          /\ Return(FALSE)
     ELSE /\ Return(TRUE)
          /\ UNCHANGED errors
  /\ steps' = steps + 1
  /\ UNCHANGED <<input, session, extraction,
                 cursor, p, cn_cursor, current_property, current_tree,
                 opened, closed>>

\* The loop has ended: the check of the final state, and the result handed over.
End ==
  /\ pc = "END"
  /\ IF current_tree # Root
     THEN /\ errors' = LogError(errors, "Parser ends with a bad state.")
          /\ Return(FALSE)
          /\ UNCHANGED <<trees, tree_collection>>
     ELSE /\ IF entry \in {"ParseToCollection", "SimpleParseSgf"}
             THEN /\ tree_collection' = trees[Root].children
                  /\ trees' = [trees EXCEPT ![Root].children = tree_collection]
             ELSE UNCHANGED <<trees, tree_collection>>
          /\ Return(TRUE)
          /\ UNCHANGED errors
  /\ steps' = steps + 1
  /\ UNCHANGED <<input, session, extraction,
                 cursor, p, cn_cursor, current_property, current_tree,
                 opened, closed>>

\* Mutant: more than one tree is refused without a message.
SpsCheckSilent ==
  /\ pc = "SPS_CHECK"
  /\ steps' = steps + 1
  /\ IF tree_collection = <<>>
     THEN /\ errors' = LogError(errors, "An empty tree collection.")
          /\ ReturnToCaller(FALSE)
          /\ UNCHANGED <<sps_current, sps_prop>>
     ELSE IF Len(tree_collection) > 1
     THEN /\ ReturnToCaller(FALSE)
          /\ UNCHANGED <<errors, sps_current, sps_prop>>
     ELSE /\ sps_current' = tree_collection[1]
          /\ sps_prop' = 1
          /\ pc' = "SPS_WALK"
          /\ UNCHANGED <<errors, result>>
  /\ UNCHANGED <<input, session, path,
                 record, unparsed, cursor, p, cn_cursor, current_property, trees,
                 current_tree, tree_collection, opened, closed>>

\* Mutant: of more than one tree the first is taken.
SpsCheckFirstTree ==
  /\ pc = "SPS_CHECK"
  /\ steps' = steps + 1
  /\ IF tree_collection = <<>>
     THEN /\ errors' = LogError(errors, "An empty tree collection.")
          /\ ReturnToCaller(FALSE)
          /\ UNCHANGED <<sps_current, sps_prop>>
     ELSE /\ sps_current' = tree_collection[1]
          /\ sps_prop' = 1
          /\ pc' = "SPS_WALK"
          /\ UNCHANGED <<errors, result>>
  /\ UNCHANGED <<input, session, path,
                 record, unparsed, cursor, p, cn_cursor, current_property, trees,
                 current_tree, tree_collection, opened, closed>>

\* SimpleParseSgf after ParseToCollection returned true: the checks of the collection.
SpsCheck ==
  /\ pc = "SPS_CHECK"
  /\ steps' = steps + 1
  /\ IF tree_collection = <<>>
     THEN /\ errors' = LogError(errors, "An empty tree collection.")
          /\ ReturnToCaller(FALSE)
          /\ UNCHANGED <<sps_current, sps_prop>>
     ELSE IF Len(tree_collection) > 1
     THEN /\ errors' = LogError(errors, "Multiple trees are not supported.")
          /\ ReturnToCaller(FALSE)
          /\ UNCHANGED <<sps_current, sps_prop>>
     ELSE /\ sps_current' = tree_collection[1]
          /\ sps_prop' = 1
          /\ pc' = "SPS_WALK"
          /\ UNCHANGED <<errors, result>>
  /\ UNCHANGED <<input, session, path,
                 record, unparsed, cursor, p, cn_cursor, current_property, trees,
                 current_tree, tree_collection, opened, closed>>

\* Mutant: a property HandleProperty refuses is reported and the walk goes on.
SpsPropertyGoesOn ==
  /\ pc = "SPS_WALK"
  /\ sps_prop <= Len(Flatten(trees[sps_current].sequence))
  /\ steps' = steps + 1
  /\ LET h == HandleProperty(Flatten(trees[sps_current].sequence)[sps_prop], record, unparsed)
     IN /\ record' = h.record
        /\ unparsed' = h.unparsed
        /\ sps_prop' = sps_prop + 1
        /\ errors' = IF h.ok THEN errors ELSE LogError(errors, h.msg)
        /\ UNCHANGED <<result, pc>>
  /\ UNCHANGED <<input, session, path,
                 sps_current, cursor, p, cn_cursor, current_property, trees,
                 current_tree, tree_collection, opened, closed>>

\* SimpleParseSgf, one turn of the loops over the properties of current: one
\* call of HandleProperty.
SpsProperty ==
  /\ pc = "SPS_WALK"
  /\ sps_prop <= Len(Flatten(trees[sps_current].sequence))
  /\ steps' = steps + 1
  /\ LET h == HandleProperty(Flatten(trees[sps_current].sequence)[sps_prop], record, unparsed)
     IN /\ record' = h.record
        /\ unparsed' = h.unparsed
        /\ IF h.ok
           THEN /\ sps_prop' = sps_prop + 1
                /\ UNCHANGED <<errors, result, pc>>
           ELSE /\ errors' = LogError(errors, h.msg)
                /\ ReturnToCaller(FALSE)
                /\ UNCHANGED sps_prop
  /\ UNCHANGED <<input, session, path,
                 sps_current, cursor, p, cn_cursor, current_property, trees,
                 current_tree, tree_collection, opened, closed>>

\* Mutant: of more than one child the first is followed.
SpsDescendFirstChild ==
  /\ pc = "SPS_WALK"
  /\ sps_prop > Len(Flatten(trees[sps_current].sequence))
  /\ steps' = steps + 1
  /\ IF trees[sps_current].children = <<>>
     THEN /\ ReturnToCaller(TRUE)
          /\ UNCHANGED <<errors, sps_current, sps_prop>>
     ELSE /\ sps_current' = trees[sps_current].children[1]
          /\ sps_prop' = 1
          /\ UNCHANGED <<errors, result, pc>>
  /\ UNCHANGED <<input, session, path,
                 record, unparsed, cursor, p, cn_cursor, current_property, trees,
                 current_tree, tree_collection, opened, closed>>

\* SimpleParseSgf, the properties of current are done: on to its only child.
SpsDescend ==
  /\ pc = "SPS_WALK"
  /\ sps_prop > Len(Flatten(trees[sps_current].sequence))
  /\ steps' = steps + 1
  /\ IF Len(trees[sps_current].children) > 1
     THEN /\ errors' = LogError(errors, "Branched tree is not supported.")
          /\ ReturnToCaller(FALSE)
          /\ UNCHANGED <<sps_current, sps_prop>>
     ELSE IF trees[sps_current].children = <<>>
     THEN /\ ReturnToCaller(TRUE)
          /\ UNCHANGED <<errors, sps_current, sps_prop>>
     ELSE /\ sps_current' = trees[sps_current].children[1]
          /\ sps_prop' = 1
          /\ UNCHANGED <<errors, result, pc>>
  /\ UNCHANGED <<input, session, path,
                 record, unparsed, cursor, p, cn_cursor, current_property, trees,
                 current_tree, tree_collection, opened, closed>>

\* The caller resets the record it passed to SimpleParseSgf.
Reset ==
  /\ pc = "DONE"
  /\ entry = "SimpleParseSgf"
  /\ record' = ResetRecord(record)
  /\ pc' = "RESET"
  /\ UNCHANGED <<input, session, path,
                 unparsed, sps_current, sps_prop, cursor, p, cn_cursor,
                 current_property, trees, current_tree, tree_collection, errors, result,
                 steps, opened, closed>>

\* The later SimpleParseSgf after ParseToRoot returned true: the check of the
\* root, the furthest leaf and the path to it.
SpfCheck ==
  /\ pc = "SPF_CHECK"
  /\ steps' = steps + 1
  /\ IF trees[Root].children = <<>>
     THEN /\ errors' = LogError(errors, "An empty tree collection.")
          /\ ReturnToCaller(FALSE)
          /\ UNCHANGED path
     ELSE /\ path' = PathFrom(trees, GetFurthestLeaf(trees, Root).leaf)
          /\ pc' = "SPF_WALK"
          /\ UNCHANGED <<errors, result>>
  /\ UNCHANGED <<input, session, record, unparsed, sps_current, sps_prop,
                 cursor, p, cn_cursor, current_property, trees,
                 current_tree, tree_collection, opened, closed>>

\* The later SimpleParseSgf, one turn of the loops over the properties of
\* current: one call of HandleProperty.
SpfProperty ==
  /\ pc = "SPF_WALK"
  /\ sps_current # NullTree
  /\ sps_prop <= Len(Flatten(trees[sps_current].sequence))
  /\ steps' = steps + 1
  /\ LET h == HandlePropertyLenient(Flatten(trees[sps_current].sequence)[sps_prop],
                                    record, unparsed)
     IN /\ record' = h.record
        /\ unparsed' = h.unparsed
        /\ IF h.ok
           THEN /\ sps_prop' = sps_prop + 1
                /\ UNCHANGED <<errors, result, pc>>
           ELSE /\ errors' = LogError(errors, h.msg)
                /\ ReturnToCaller(FALSE)
                /\ UNCHANGED sps_prop
  /\ UNCHANGED <<input, session, path,
                 sps_current, cursor, p, cn_cursor, current_property, trees,
                 current_tree, tree_collection, opened, closed>>

\* Mutant: the tree at the front of the path, the leaf, is taken first.
SpfNextLeafFirst ==
  /\ pc = "SPF_WALK"
  /\ IF sps_current = NullTree THEN TRUE
     ELSE sps_prop > Len(Flatten(trees[sps_current].sequence))
  /\ steps' = steps + 1
  /\ IF path = <<>>
     THEN /\ ReturnToCaller(TRUE)
          /\ UNCHANGED <<path, sps_current, sps_prop>>
     ELSE /\ sps_current' = path[1]
          /\ path' = Tail(path)
          /\ sps_prop' = 1
          /\ UNCHANGED <<result, pc>>
  /\ UNCHANGED <<input, session, record, unparsed, errors,
                 cursor, p, cn_cursor, current_property, trees,
                 current_tree, tree_collection, opened, closed>>

\* The later SimpleParseSgf, the test of the loop over path: the tree at its
\* back is taken off and becomes current, or the path is done.
SpfNext ==
  /\ pc = "SPF_WALK"
  /\ IF sps_current = NullTree THEN TRUE
     ELSE sps_prop > Len(Flatten(trees[sps_current].sequence))
  /\ steps' = steps + 1
  /\ IF path = <<>>
     THEN /\ ReturnToCaller(TRUE)
          /\ UNCHANGED <<path, sps_current, sps_prop>>
     ELSE /\ sps_current' = path[Len(path)]
          /\ path' = SubSeq(path, 1, Len(path) - 1)
          /\ sps_prop' = 1
          /\ UNCHANGED <<result, pc>>
  /\ UNCHANGED <<input, session, record, unparsed, errors,
                 cursor, p, cn_cursor, current_property, trees,
                 current_tree, tree_collection, opened, closed>>

\* What a call of ParseToCollection gave its caller: the value returned, the
\* lines added to the errors, and the trees of the collection.
Outcome ==
  [sgf |-> sgf, result |-> result,
   errors |-> SubSeq(errors, Len(errors_in.text) + 1, Len(errors)),
   collection |-> tree_collection, trees |-> trees]

\* ParseToCollection has returned to a caller that notes what it got.
Finish ==
  /\ pc = "DONE"
  /\ entry = "ParseToCollection"
  /\ finished' = Append(finished, Outcome)
  /\ pc' = "RETURNED"
  /\ UNCHANGED <<input, extraction, handicap_stones, moves, cursor, p, cn_cursor,
                 current_property, trees, current_tree, tree_collection, errors, result,
                 steps, opened, closed>>

\* The state at the entry of one more call of ParseToCollection by the same
\* caller, on the text s with an empty collection and the errors string errs:
\* root, current_tree, state and cursor are set as the function declares them,
\* the objects at namespace scope are what the calls before left.
Enter(s, errs, first) ==
  /\ pc = "RETURNED"
  /\ sgf' = s
  /\ errors_in' = errs
  /\ errors' = errs.text
  /\ trees' = <<GameTree(NullTree)>>
  /\ current_tree' = Root
  /\ pc' = "START"
  /\ cursor' = first
  /\ p' = NPOS
  /\ cn_cursor' = 0
  /\ current_property' = 0
  /\ tree_collection' = <<>>
  /\ result' = NoResult
  /\ steps' = 0
  /\ opened' = 0
  /\ closed' = 0
  /\ UNCHANGED <<entry, doc, record_in, unparsed_in, extraction, session>>

----------------------------------------------------------------------------
(* Specifications *)

\* The state at the entry of fn, for input s.
Call(s, fn, errs, d, rec, unp) ==
  /\ sgf = s
  /\ entry = fn
  /\ errors_in = errs
  /\ doc = d
  /\ record_in = rec
  /\ unparsed_in = unp
  /\ record = rec
  /\ unparsed = unp.items
  /\ sps_current = NullTree
  /\ sps_prop = 0
  /\ path = <<>>
  /\ handicap_stones = <<>>
  /\ moves = <<>>
  /\ finished = <<>>
  /\ pc = "START"
  /\ cursor = 0
  /\ p = NPOS
  /\ cn_cursor = 0
  /\ current_property = 0
  /\ trees = <<GameTree(NullTree)>>
  /\ current_tree = Root
  /\ tree_collection = <<>>
  /\ errors = errs.text
  /\ result = NoResult
  /\ steps = 0
  /\ opened = 0
  /\ closed = 0

\* The state at the entry of a tree builder called by itself.
Entry(s, fn, errs, d) == Call(s, fn, errs, d, GameRecord, NullUnparsed)

Init == \E n \in 0..MaxLen : \E s \in [1..n -> Alphabet] :
          Entry(s, "ParseToCollection", ErrorsString(<<>>), <<>>)

Next ==
  \/ Start
  \/ TreeStart
  \/ NodeStart
  \/ ConsumeNodeStart
  \/ ConsumeValueStart
  \/ ConsumeNextValue
  \/ NodeReturn
  \/ NextTree
  \/ End

\* Every input of at most MaxLen characters, given to ParseToCollection.
Spec == Init /\ [][Next]_vars

(* Inputs with nested trees: at most MaxChunks pieces, each a parenthesis, a  *)
(* node with one property, one more bracket group, or stray text; given to    *)
(* either tree builder, with and without an errors string.                    *)
MaxChunks == 6

Chunks == { <<"(">>, <<")">>, <<";", "a", "[", "a", "]">>, <<"[", "a", "]">>, <<"a">> }

RECURSIVE Concat(_)
Concat(ss) == IF ss = <<>> THEN <<>> ELSE Head(ss) \o Concat(Tail(ss))

TreeInit ==
  \E n \in 0..MaxChunks : \E cs \in [1..n -> Chunks] :
    \E fn \in {"ParseToCollection", "ParseToRoot"} : \E errs \in {ErrorsString(<<>>), NullErrors} :
      Entry(Concat(cs), fn, errs, <<>>)

TreeSpec == TreeInit /\ [][Next]_vars

(* Inputs of the grammar (;ID[v]...[v] ID[v]... ;ID[v]...): one tree written  *)
(* from at most MaxItems items. An item is a value together with what opens   *)
(* before it: a node and a property ("node"), a property ("prop"), or nothing *)
(* ("value": one more value of the property before it).                       *)
MaxItems == 3

Ids == { <<"A">>, <<"B", "C">> }
Values == { <<>>, <<" ", "c">> }
Whitespace == { <<>>, <<" ">>, <<"\n", "\t">> }

Items == [kind : {"node", "prop"}, id : Ids, value : Values]
           \cup [kind : {"value"}, id : {<<>>}, value : Values]

\* w1 stands before every "[", w2 before every other token and at the end.
RenderItem(it, w1, w2) ==
  (IF it.kind = "node" THEN w2 \o <<";">> ELSE <<>>)
    \o (IF it.kind = "value" THEN <<>> ELSE w2 \o it.id)
    \o w1 \o <<"[">> \o it.value \o <<"]">>

RECURSIVE RenderItems(_, _, _)
RenderItems(items, w1, w2) ==
  IF items = <<>> THEN <<>>
  ELSE RenderItem(Head(items), w1, w2) \o RenderItems(Tail(items), w1, w2)

Render(items, w1, w2) ==
  w2 \o <<"(">> \o RenderItems(items, w1, w2) \o w2 \o <<")">> \o w2

ValidInit ==
  \E n \in 1..MaxItems : \E items \in [1..n -> Items] :
    \E w1 \in Whitespace : \E w2 \in Whitespace :
      /\ items[1].kind = "node"
      /\ Entry(Render(items, w1, w2), "ParseToCollection", ErrorsString(<<>>), items)

ValidSpec == ValidInit /\ [][Next]_vars

(* Inputs for SimpleParseSgf: at most MaxProps properties laid out as one node, *)
(* as one node each, as a chain of nested trees, as several trees, as a tree    *)
(* with two branches, or left unclosed; with and without an errors string and   *)
(* an unparsed vector, on a fresh record and on one used before. The same       *)
(* inputs are given to ParseToCollection called by itself.                      *)
MaxProps == 2

PropertyTexts ==
  {
    <<"S", "Z", "[", "1", "9", "]">>, <<"S", "Z", "[", "x", "]">>,
    <<"H", "A", "[", "2", "]", "[", "3", "]">>, <<"K", "M", "[", "6", ".", "5", "]">>,
    <<"R", "E", "[", "B", "+", "R", "]">>, <<"R", "E", "[", "W", "+", "2", ".", "5", "]">>,
    <<"P", "B", "[", "a", "]">>, <<"A", "B", "[", "a", "b", "]", "[", "c", "d", "]">>,
    <<"B", "[", "a", "a", "]">>, <<"b", "[", "C", "D", "]">>,
    <<"W", "[", "]", "[", "b", "c", "]">>, <<"B", "[", "a", "b", "]", "[", "a", "b", "c", "]">>,
    <<"x", "Y", "[", "1", "]", "[", "2", "]">>, <<"R", "E", "[", "B", "+", "T", "]">>
  }

Layouts == {"node", "nodes", "chain", "trees", "branches", "open"}

RECURSIVE Nodes(_)
Nodes(ps) == IF ps = <<>> THEN <<>> ELSE <<";">> \o Head(ps) \o Nodes(Tail(ps))

RECURSIVE Chain(_)
Chain(ps) ==
  IF ps = <<>> THEN <<>> ELSE <<"(", ";">> \o Head(ps) \o Chain(Tail(ps)) \o <<")">>

RECURSIVE Trees(_)
Trees(ps) ==
  IF ps = <<>> THEN <<>> ELSE <<"(", ";">> \o Head(ps) \o <<")">> \o Trees(Tail(ps))

Layout(kind, ps) ==
  CASE kind = "node" -> <<"(", ";">> \o Concat(ps) \o <<")">>
    [] kind = "nodes" -> <<"(">> \o Nodes(ps) \o <<")">>
    [] kind = "chain" -> Chain(ps)
    [] kind = "trees" -> Trees(ps)
    [] kind = "branches" ->
         IF ps = <<>> THEN <<"(", ")">>
         ELSE <<"(", ";">> \o Head(ps) \o Trees(Tail(ps)) \o Trees(Tail(ps)) \o <<")">>
    [] kind = "open" -> <<"(", ";">> \o Concat(ps)

\* A record an earlier call of SimpleParseSgf on (;SZ[19];B[aa]) has filled.
UsedRecord ==
  [GameRecord EXCEPT !.board_width = 19, !.board_height = 19,
                     !.moves = <<GoMove("BLACK", FALSE, <<0, 0>>)>>]

SgfInit ==
  \E n \in 0..MaxProps : \E ps \in [1..n -> PropertyTexts] : \E kind \in Layouts :
    \E errs \in {ErrorsString(<<"earlier">>), NullErrors} :
      \/ \E rec \in {GameRecord, UsedRecord} : \E unp \in {UnparsedVector(<<>>), NullUnparsed} :
           Call(Layout(kind, ps), "SimpleParseSgf", errs, <<>>, rec, unp)
      \/ Entry(Layout(kind, ps), "ParseToCollection", errs, <<>>)

NextSgf ==
  \/ Next
  \/ SpsCheck
  \/ SpsProperty
  \/ SpsDescend
  \/ Reset

SgfSpec == SgfInit /\ [][NextSgf]_vars

(* Inputs for the two SimpleParseSgf: at most MaxShape pieces, each opening a  *)
(* tree with a node, adding a node or closing a tree, so that trees branch and *)
(* the branches differ in depth and in nodes; for the later one, a tree of one *)
(* property its HandleProperty treats in its own way; and, for both, two such  *)
(* properties, or properties with values at the edges of what the record can   *)
(* hold, in two nodes or in two nested trees.                                  *)
MaxShape == 8

Pieces ==
  { <<"(", ";", "B", "[", "a", "a", "]">>, <<";", "W", "[", "]">>, <<")">> }

LenientTexts ==
  {
    <<"T", "M", "[", "5", "]">>, <<"T", "M", "[", "x", "]">>,
    <<"K", "M", "[", "x", "]">>, <<"K", "M", "[", "0", ".", "5", "]">>,
    <<"K", "M", "[", "1", "]", "[", "2", "]">>, <<"T", "M", "[", "1", "]", "[", "2", "]">>,
    <<"R", "E", "[", "B", "+", "T", "]">>, <<"R", "E", "[", "w", "+", "f", "]">>,
    <<"R", "E", "[", "B", "+", "3", ".", "5", "]">>, <<"R", "E", "[", "W", "+", "4", "]">>,
    <<"R", "E", "[", "B", "+", "x", "]">>, <<"R", "E", "[", "D", "+", "1", "]">>,
    <<"R", "E", "[", "B", "+", "]">>, <<"R", "E", "[", "1", "]", "[", "2", "]">>,
    <<"S", "Z", "[", "9", "]">>
  }

\* Sizes beyond a GoCoord, and stones and moves at and beyond the letters.
EdgeTexts ==
  {
    <<"S", "Z", "[", "4", "0", "0", "0", "0", "]">>,
    <<"S", "Z", "[", "6", "5", "5", "5", "5", "]">>,
    <<"B", "[", "1", "!", "]">>, <<"A", "W", "[", "a", "{", "]">>,
    <<"W", "[", "z", "z", "]">>, <<"A", "B", "[", "a", "b", "c", "]">>
  }

Extractors == {"SimpleParseSgf", "SimpleParseSgfFurthest"}

LeafInit ==
  \/ \E n \in 0..MaxShape : \E ps \in [1..n -> Pieces] : \E fn \in Extractors :
       Call(Concat(ps), fn, ErrorsString(<<>>), <<>>, GameRecord, UnparsedVector(<<>>))
  \/ \E t \in LenientTexts :
       Call(Layout("node", <<t>>), "SimpleParseSgfFurthest", ErrorsString(<<>>), <<>>,
            GameRecord, UnparsedVector(<<>>))
  \/ \E ps \in [1..2 -> LenientTexts \cup EdgeTexts] : \E kind \in {"nodes", "chain"} :
       \E fn \in Extractors :
         Call(Layout(kind, ps), fn, ErrorsString(<<>>), <<>>, GameRecord, UnparsedVector(<<>>))

NextLeaf ==
  \/ Next
  \/ SpsCheck
  \/ SpsProperty
  \/ SpsDescend
  \/ SpfCheck
  \/ SpfProperty
  \/ SpfNext

LeafSpec == LeafInit /\ [][NextLeaf]_vars

(* A caller that calls ParseToCollection up to MaxCalls times, each time on    *)
(* one of a few texts, some well formed and some not, with a new errors string *)
(* or with the one of the call before.                                         *)
MaxCalls == 3

SessionTexts ==
  {
    <<"(", ";", "B", "[", "a", "a", "]", ")">>,
    <<"(", ";", "a", "[", "b", "]", "(", ";", "c", "[", "d", "]", ")", ")">>,
    <<"(", ";", "B", "[", "a", "a", "]">>,
    <<"(", ";", "B", "[", "a">>,
    <<"(", ")">>
  }

\* Mutant: cursor keeps its value from one call to the next.
NextCallKeepsCursor ==
  /\ Len(finished) < MaxCalls
  /\ \E s \in SessionTexts : \E errs \in {ErrorsString(<<>>), ErrorsString(errors)} :
       Enter(s, errs, cursor)

\* The caller calls ParseToCollection once more.
NextCall ==
  /\ Len(finished) < MaxCalls
  /\ \E s \in SessionTexts : \E errs \in {ErrorsString(<<>>), ErrorsString(errors)} :
       Enter(s, errs, 0)

SessionInit ==
  \E s \in SessionTexts : Entry(s, "ParseToCollection", ErrorsString(<<>>), <<>>)

NextSession ==
  \/ Next
  \/ Finish
  \/ NextCall

SessionSpec == SessionInit /\ [][NextSession]_vars

----------------------------------------------------------------------------
(* Vocabulary of the properties *)

Done == pc = "DONE"
ReturnedTrue == Done /\ result = "true"
ReturnedFalse == Done /\ result = "false"

\* The lines the call has appended to the errors string.
Appended == SubSeq(errors, Len(errors_in.text) + 1, Len(errors))

Reported(msg) == \E i \in DOMAIN Appended : Appended[i] = msg

OnlySpace(s) == \A i \in DOMAIN s : IsSpace(s[i])

CountChar(s, c) == Cardinality({i \in DOMAIN s : s[i] = c})

\* The character at offset i of s follows a backslash that is not itself escaped:
\* the run of backslashes ending right before it has odd length.
RECURSIVE BackslashRun(_, _)
BackslashRun(s, i) == IF i > 0 /\ s[i] = "\\" THEN 1 + BackslashRun(s, i - 1) ELSE 0
Escaped(s, i) == BackslashRun(s, i) % 2 = 1

\* The nodes a valid input written from these items holds.
RECURSIVE NodesOf(_, _)
NodesOf(items, nodes) ==
  IF items = <<>> THEN nodes
  ELSE LET it == Head(items)
           n == Len(nodes)
       IN NodesOf(Tail(items),
            CASE it.kind = "node" ->
                   Append(nodes, <<[id |-> it.id, values |-> <<it.value>>]>>)
              [] it.kind = "prop" ->
                   [nodes EXCEPT ![n] = Append(@, [id |-> it.id, values |-> <<it.value>>])]
              [] it.kind = "value" ->
                   [nodes EXCEPT ![n][Len(nodes[n])].values = Append(@, it.value)])

----------------------------------------------------------------------------
(* C1: every input of the grammar (;ID[v]...[v] ID[v]... ;ID[v]...), with any  *)
(* whitespace between its tokens, is parsed with success: ParseToCollection    *)
(* returns true, appends nothing to errors, and yields exactly one root tree,  *)
(* without children, with one node per ";", whose nodes, properties and values *)
(* are those of the input in source order. (ValidSpec)                         *)
C1_ValidInputParses ==
  /\ ~Done => ENABLED Next
  /\ Done =>
       /\ ReturnedTrue
       /\ errors = errors_in.text
       /\ Len(tree_collection) = 1
       /\ LET t == trees[tree_collection[1]]
          IN /\ t.children = <<>>
             /\ Len(t.sequence) = CountChar(sgf, ";")
             /\ t.sequence = NodesOf(doc, <<>>)

\* A finished parse of two nodes, the first with a property of two values,
\* written with whitespace between the tokens.
C1_Witness ==
  /\ ReturnedTrue
  /\ CountChar(sgf, "\n") > 0
  /\ Len(tree_collection) = 1
  /\ LET t == trees[tree_collection[1]]
     IN /\ Len(t.sequence) = 2
        /\ Len(t.sequence[1][1].values) = 2

----------------------------------------------------------------------------
(* C2: inside a node, a bracket group separated from the preceding "]" by     *)
(* whitespace only becomes one more value of the current property; when other  *)
(* text precedes the "[", that text, trimmed, names a new property at the end  *)
(* of the node, also when an earlier property of the node has the same name.   *)
(* A value is always added to the last property: properties of the same name   *)
(* are never merged. (ValidSpec)                                               *)

\* The text between the cursor of ConsumeNode and the "[" the step found.
GapBefore == Substr(sgf, cn_cursor, p' - cn_cursor)

\* id is text without its leading and trailing whitespace.
IsTrimmed(id, text) ==
  /\ id # <<>>
  /\ ~IsSpace(id[1]) /\ ~IsSpace(id[Len(id)])
  /\ \E k \in 0..(Len(text) - Len(id)) :
        /\ SubSeq(text, k + 1, k + Len(id)) = id
        /\ OnlySpace(SubSeq(text, 1, k))
        /\ OnlySpace(SubSeq(text, k + Len(id) + 1, Len(text)))

C2_NextValueStep ==
  (pc = "CN_NEXT_VALUE" /\ pc' = "CN_VALUE_START") =>
     IF OnlySpace(GapBefore)
     THEN Node' = Node /\ current_property' = current_property
     ELSE /\ Len(Node') = Len(Node) + 1
          /\ SubSeq(Node', 1, Len(Node)) = Node
          /\ Node'[Len(Node')].values = <<>>
          /\ IsTrimmed(Node'[Len(Node')].id, GapBefore)
          /\ current_property' = Len(Node')

C2_ValueStep ==
  (pc = "CN_VALUE_START" /\ pc' = "CN_NEXT_VALUE") =>
     /\ current_property = Len(Node)
     /\ Len(Node') = Len(Node)
     /\ SubSeq(Node', 1, Len(Node) - 1) = SubSeq(Node, 1, Len(Node) - 1)
     /\ Node'[Len(Node)].id = Node[Len(Node)].id
     /\ Len(Node'[Len(Node)].values) = Len(Node[Len(Node)].values) + 1
     /\ SubSeq(Node'[Len(Node)].values, 1, Len(Node[Len(Node)].values))
          = Node[Len(Node)].values

\* C2: a bracket group after only whitespace adds a value to the current
\* property; any other text before it, trimmed, names a new property, which is
\* appended even when the node already has one of that name.
C2_ValueGrouping == [][C2_NextValueStep /\ C2_ValueStep]_vars

\* A node holding A with two values and then a second property named A, as in
\* A[..][..]A[..].
C2_Witness ==
  /\ pc = "CN_NEXT_VALUE"
  /\ Len(Node) = 2
  /\ Node[1].id = Node[2].id
  /\ Len(Node[1].values) = 2
  /\ Len(Node[2].values) = 1

----------------------------------------------------------------------------
(* C3: FindFirst never returns the offset of a character that follows an      *)
(* unescaped backslash. A property value therefore ends at the first "]" that  *)
(* is not escaped, and the value stored is the raw text between the brackets,  *)
(* backslashes included. (Spec)                                                *)

\* The value ConsumeNode stored last.
LastValue == LET vs == Node[Len(Node)].values IN vs[Len(vs)]

\* C3: no offset FindFirst returns follows an unescaped backslash; a value ends
\* at the first "]" that is not escaped and is stored raw.
C3_EscapedNeverFound ==
  /\ p # NPOS => ~Escaped(sgf, p)
  /\ pc = "CN_NEXT_VALUE" =>
       LET v == LastValue
           open == p - Len(v) - 1     \* the offset of the "[" before the value
       IN /\ sgf[p + 1] = "]"
          /\ open >= 0 /\ sgf[open + 1] = "[" /\ ~Escaped(sgf, open)
          /\ v = SubSeq(sgf, open + 2, p)
          /\ \A k \in (open + 1)..(p - 1) : sgf[k + 1] = "]" => Escaped(sgf, k)

\* The value \] has been stored: the escaped "]" did not end it.
C3_Witness ==
  /\ pc = "CN_NEXT_VALUE"
  /\ LastValue = <<"\\", "]">>

----------------------------------------------------------------------------
\* The offset of the first character of s at or after offset i that is not
\* whitespace, Len(s) when there is none.
RECURSIVE FirstNonSpace(_, _)
FirstNonSpace(s, i) ==
  IF i < Len(s) /\ IsSpace(s[i + 1]) THEN FirstNonSpace(s, i + 1) ELSE i

\* The first character of s at or after offset i that is not whitespace is c.
NextTokenIs(s, i, c) ==
  LET k == FirstNonSpace(s, i) IN k < Len(s) /\ s[k + 1] = c

(* C4: when the input holds no "(", or a character other than whitespace      *)
(* stands before its first "(", ParseToCollection returns false and the error  *)
(* text holds "Failed in finding a tree start". Stated of the step taken in    *)
(* state START, where the code decides it. (Spec)                              *)
C4_BadStartFails ==
  [][(pc = "START" /\ ~NextTokenIs(sgf, 0, "(")) =>
        (ReturnedFalse' /\ Reported("Failed in finding a tree start.")')]_vars

(* C5: after a "(" that opens a tree, when the next character that is not     *)
(* whitespace is not ";" (or the input ends there), ParseToCollection returns  *)
(* false and the error text holds "Failed in finding a node start". Stated of  *)
(* the step taken in state TREE_START, entered right after every such "(".     *)
(* (Spec)                                                                      *)
C5_NoNodeStartFails ==
  [][(pc = "TREE_START" /\ ~NextTokenIs(sgf, cursor, ";")) =>
        (ReturnedFalse' /\ Reported("Failed in finding a node start.")')]_vars

----------------------------------------------------------------------------
\* The number of trees above t, the virtual root included.
RECURSIVE Depth(_)
Depth(t) == IF trees[t].parent = NullTree THEN 0 ELSE 1 + Depth(trees[t].parent)

\* The last line of the errors string.
LastError == IF errors = <<>> THEN "" ELSE errors[Len(errors)]

(* C6: the tree builder returns true only when the current tree at END is the  *)
(* virtual root, that is when as many trees were closed as were opened; END    *)
(* reached with a tree still open fails with "Parser ends with a bad state.";  *)
(* a ")" met while the current tree is the virtual root fails with "Trying to  *)
(* going up in the root tree.", and the null parent is never used: the current *)
(* tree is null only once the builder has returned false. (TreeSpec)           *)
C6_Balance ==
  /\ current_tree # NullTree => Depth(current_tree) = opened - closed
  /\ current_tree = NullTree =>
       /\ ReturnedFalse
       /\ ~errors_in.null => LastError = "Trying to going up in the root tree."
  /\ ReturnedTrue => current_tree = Root /\ opened = closed /\ opened > 0

C6_EndStep ==
  (pc = "END" /\ current_tree # Root) =>
     /\ ReturnedFalse'
     /\ ~errors_in.null => Reported("Parser ends with a bad state.")'

C6_CloseAtRootStep ==
  (pc = "NEXT_TREE" /\ current_tree = Root /\ NextTokenIs(sgf, cursor, ")")) =>
     /\ ReturnedFalse'
     /\ ~errors_in.null => Reported("Trying to going up in the root tree.")'

\* C6: true is returned only from the virtual root with as many trees closed
\* as opened; the end with a tree open and a ")" at the root fail with their
\* messages, and a null current tree is never used.
C6_BalancedOrFails == []C6_Balance /\ [][C6_EndStep /\ C6_CloseAtRootStep]_vars

\* A successful parse of a tree with a tree nested in it: two opened, two closed.
C6_Witness ==
  /\ ReturnedTrue
  /\ opened = 2 /\ closed = 2
  /\ trees[3].parent = 2

----------------------------------------------------------------------------
(* The tree builder is one sequential loop: whenever it can take a step, it    *)
(* does.                                                                       *)
MaxFairLen == 5

FairInit == \E n \in 0..MaxFairLen : \E s \in [1..n -> Alphabet] :
              Entry(s, "ParseToCollection", ErrorsString(<<>>), <<>>)

FairSpec == FairInit /\ [][Next]_vars /\ WF_vars(Next)

(* C7: ParseToCollection, with ConsumeNode inside it, comes to its return on    *)
(* every input, after a number of transitions bounded by the input length: at  *)
(* most 2 * Len(sgf) + 1 steps of the two loops, the final check included.     *)
(* (FairSpec)                                                                  *)
C7_Terminates == <>Done /\ [](steps <= 2 * Len(sgf) + 1)

\* The parse of an input of the greatest length has returned after more steps
\* than the input has characters.
C7_Witness == Done /\ steps >= Len(sgf) + 2 /\ Len(sgf) = MaxFairLen

----------------------------------------------------------------------------
\* C8: with an errors string that is not null, ParseToCollection and
\* SimpleParseSgf return false if and only if the call appended at least one
\* message line to errors; a call that succeeds leaves errors as it was, and no
\* call removes what errors held before.
C8_FalseIffErrorLogged ==
  /\ SubSeq(errors, 1, Len(errors_in.text)) = errors_in.text
  /\ (Done /\ ~errors_in.null) => (result = "false" <=> Appended # <<>>)
  /\ (pc = "SPS_CHECK" /\ ~errors_in.null) => Appended = <<>>
  /\ ReturnedTrue => errors = errors_in.text

\* SimpleParseSgf built the tree, refused a property of it and said so after the
\* text errors held before the call.
C8_Witness ==
  /\ ReturnedFalse
  /\ entry = "SimpleParseSgf"
  /\ sps_current # NullTree
  /\ errors = <<"earlier", "Bad SZ value.">>

----------------------------------------------------------------------------
\* What the caller holds after the call: the collection ParseToCollection
\* fills, the children of the root ParseToRoot was given.
CallerOutput == IF entry = "ParseToRoot" THEN trees[Root].children ELSE tree_collection

(* C9, as claimed: when the tree builder fails, the caller's output structure  *)
(* is as it was before the call, empty. (TreeSpec)                             *)
C9_FailureLeavesOutputAlone == ReturnedFalse => CallerOutput = <<>>

(* C9, amended: ParseToCollection builds under a root of its own and hands the *)
(* trees over only when it returns true, so its caller's collection is as it   *)
(* was before the call at every moment of a failing call. ParseToRoot builds   *)
(* under the caller's root: after a failed call that root holds every          *)
(* top-level tree opened before the failure. (TreeSpec)                        *)
C9_OnlyCollectionLeftAlone ==
  /\ entry = "ParseToCollection" =>
       /\ ~ReturnedTrue => tree_collection = <<>>
       /\ ReturnedTrue => tree_collection # <<>>
  /\ entry = "ParseToRoot" =>
       /\ tree_collection = <<>>
       /\ Len(trees[Root].children) = Cardinality({t \in DOMAIN trees : trees[t].parent = Root})

\* ParseToCollection has failed after it built a tree with a node in it.
C9_Witness ==
  /\ entry = "ParseToCollection"
  /\ ReturnedFalse
  /\ Len(trees) > 1
  /\ trees[2].sequence # <<>>

----------------------------------------------------------------------------
\* C10: after Reset(), on a record in any state, every field of the record
\* equals the field of a default-constructed GameRecord.
C10_ResetRestoresDefaults == pc = "RESET" => record = GameRecord

----------------------------------------------------------------------------
\* The trees at the top level that the tree builder handed to SimpleParseSgf.
TopLevel == IF entry = "SimpleParseSgf" THEN tree_collection ELSE trees[Root].children

\* SimpleParseSgf is at its checks, the tree builder having returned true.
AtChecks == pc \in {"SPS_CHECK", "SPF_CHECK"}

\* The call has returned false with msg as the last line of the errors, and the
\* record and the unparsed vector are as the caller passed them.
RefusedUntouched(msg) ==
  /\ ReturnedFalse
  /\ LastError = msg
  /\ record = record_in
  /\ unparsed = unparsed_in.items

----------------------------------------------------------------------------
\* The first tree with more than one child on the way down from t by only
\* children, NullTree when the way ends at a leaf.
RECURSIVE FirstBranched(_)
FirstBranched(t) ==
  IF Len(trees[t].children) > 1 THEN t
  ELSE IF trees[t].children = <<>> THEN NullTree
  ELSE FirstBranched(trees[t].children[1])

\* The properties on that way, in the order of the text, down to the first tree
\* with more than one child or to the leaf.
RECURSIVE WayProperties(_)
WayProperties(t) ==
  Flatten(trees[t].sequence)
    \o (IF Len(trees[t].children) = 1 THEN WayProperties(trees[t].children[1]) ELSE <<>>)

\* What HandleProperty leaves when it is given props one after the other until
\* it returns false.
RECURSIVE HandleAll(_, _, _)
HandleAll(props, rec, unp) ==
  IF props = <<>> THEN Handled(rec, unp)
  ELSE LET h == HandleProperty(Head(props), rec, unp)
       IN IF h.ok THEN HandleAll(Tail(props), h.record, h.unparsed) ELSE h

\* The SimpleParseSgf of parser.cc has returned, the text having parsed to one tree.
SingleTreeDone == Done /\ entry = "SimpleParseSgf" /\ Len(tree_collection) = 1

\* The call returned false, and msg is the last line of the errors if there are any.
FailedWith(msg) == ReturnedFalse /\ (~errors_in.null => LastError = msg)

(* C12, as the claim states it: in the SimpleParseSgf of parser.cc, when a     *)
(* tree on the way down from the top-level tree has more than one child, the   *)
(* call returns false with the message "Branched tree is not supported."; it   *)
(* returns true only when every tree has at most one child.                    *)
C12_BranchedFailsWithBranched ==
  SingleTreeDone =>
    /\ FirstBranched(tree_collection[1]) # NullTree
         => FailedWith("Branched tree is not supported.")
    /\ ReturnedTrue => \A t \in DOMAIN trees : Len(trees[t].children) <= 1

(* C12, amended: in the SimpleParseSgf of parser.cc, when a tree on the way    *)
(* down from the top-level tree has more than one child, the call returns      *)
(* false: with the message of the first property on the way, down to that      *)
(* tree, that HandleProperty refuses, and with "Branched tree is not           *)
(* supported." when it refuses none. It returns true only when every tree has  *)
(* at most one child (and every property is handled).                          *)
C12_BranchedFails ==
  SingleTreeDone =>
    LET top == tree_collection[1]
        h == HandleAll(WayProperties(top), record_in, unparsed_in.items)
    IN /\ (FirstBranched(top) # NullTree /\ ~h.ok) => FailedWith(h.msg)
       /\ (FirstBranched(top) # NullTree /\ h.ok)
            => FailedWith("Branched tree is not supported.")
       /\ ReturnedTrue => /\ h.ok
                          /\ \A t \in DOMAIN trees : Len(trees[t].children) <= 1

\* A tree with two branches has been refused after its own properties were applied.
C12_Witness ==
  /\ SingleTreeDone
  /\ FirstBranched(tree_collection[1]) = tree_collection[1]
  /\ ~errors_in.null
  /\ FailedWith("Branched tree is not supported.")
  /\ record # record_in

----------------------------------------------------------------------------
\* The trees without children below the virtual root, by their place in trees,
\* which is the order in which the text opens them.
Leaves == {t \in DOMAIN trees : t # Root /\ trees[t].children = <<>>}

\* The nodes of t and of the trees above it.
RECURSIVE NodeCount(_)
NodeCount(t) == IF t = NullTree THEN 0 ELSE Len(trees[t].sequence) + NodeCount(trees[t].parent)

\* The trees from the top-level tree down to t.
RECURSIVE ChainTo(_)
ChainTo(t) == IF t = Root THEN <<>> ELSE Append(ChainTo(trees[t].parent), t)

\* The properties of the trees of chain, in the order of the text.
RECURSIVE ChainProperties(_)
ChainProperties(chain) ==
  IF chain = <<>> THEN <<>>
  ELSE Flatten(trees[Head(chain)].sequence) \o ChainProperties(Tail(chain))

\* What the later HandleProperty leaves when it is given props one after the
\* other until it returns false.
RECURSIVE HandleAllLenient(_, _, _)
HandleAllLenient(props, rec, unp) ==
  IF props = <<>> THEN Handled(rec, unp)
  ELSE LET h == HandlePropertyLenient(Head(props), rec, unp)
       IN IF h.ok THEN HandleAllLenient(Tail(props), h.record, h.unparsed) ELSE h

(* C13: in the SimpleParseSgf of src/unnamed/part_002, GetFurthestLeaf on the  *)
(* virtual root returns a tree without children whose nodes, counted over the  *)
(* trees from the top-level tree down to it, are as many as those of any other *)
(* such tree and more than those of any that the text opens earlier, and it    *)
(* returns that count; the trees then taken from the path, one after the       *)
(* other, are the trees from the top-level tree down to that leaf, and when    *)
(* the call returns true the record holds the properties of exactly these.     *)
C13_FurthestLeaf ==
  (entry = "SimpleParseSgfFurthest" /\ (pc = "SPF_WALK" \/ ReturnedTrue)) =>
    LET g == GetFurthestLeaf(trees, Root)
        chain == ChainTo(g.leaf)
        taken == Len(chain) - Len(path)
    IN /\ g.leaf \in Leaves
       /\ g.dist = NodeCount(g.leaf)
       /\ \A l \in Leaves : /\ NodeCount(l) <= g.dist
                             /\ NodeCount(l) = g.dist => g.leaf <= l
       /\ taken \in 0..Len(chain)
       /\ \A i \in DOMAIN path : path[i] = chain[Len(chain) + 1 - i]
       /\ sps_current = (IF taken = 0 THEN NullTree ELSE chain[taken])
       /\ ReturnedTrue =>
            LET h == HandleAllLenient(ChainProperties(chain), record_in, unparsed_in.items)
            IN taken = Len(chain) /\ h.ok /\ record = h.record /\ unparsed = h.unparsed

\* The call has returned true for a text in which the leaf taken is below the
\* second top-level tree and another leaf lies deeper with fewer nodes above it.
C13_Witness ==
  /\ entry = "SimpleParseSgfFurthest"
  /\ ReturnedTrue
  /\ LET g == GetFurthestLeaf(trees, Root)
     IN /\ Len(trees[Root].children) = 2
        /\ ChainTo(g.leaf)[1] = trees[Root].children[2]
        /\ \E l \in Leaves : Depth(l) > Depth(g.leaf) /\ NodeCount(l) < g.dist
        /\ Len(record.moves) = g.dist

----------------------------------------------------------------------------
\* The identifiers HandleProperty has a branch for.
KnownIds ==
  { <<"S", "Z">>, <<"H", "A">>, <<"T", "M">>, <<"K", "M">>, <<"R", "U">>, <<"P", "B">>,
    <<"B", "T">>, <<"P", "W">>, <<"W", "T">>, <<"B", "R">>, <<"W", "R">>, <<"D", "T">>,
    <<"R", "E">>, <<"A", "B">>, <<"A", "W">>, <<"B">>, <<"W">> }

\* values with a comma before each but the first.
CommaJoined(values) ==
  LET RECURSIVE Rest(_)
      Rest(vs) == IF vs = <<>> THEN <<>> ELSE <<",">> \o Head(vs) \o Rest(Tail(vs))
  IN IF values = <<>> THEN <<>> ELSE Head(values) \o Rest(Tail(values))

\* SimpleParseSgf is about to hand a property to HandleProperty.
AtProperty ==
  /\ pc = "SPS_WALK"
  /\ sps_prop <= Len(Flatten(trees[sps_current].sequence))

\* That property.
TheProperty == Flatten(trees[sps_current].sequence)[sps_prop]

(* C14: a property whose identifier, in upper case, is none of those that      *)
(* HandleProperty has a branch for never makes the call fail and never changes *)
(* the record: SimpleParseSgf goes on to the next property without a message,  *)
(* the record as it was, and unparsed, when there is one, longer by exactly    *)
(* the pair of the identifier in upper case and the values joined by ",".      *)
C14_UnknownPropertyKept ==
  [][(AtProperty /\ AsciiStrToUpper(TheProperty.id) \notin KnownIds) =>
       /\ pc' = "SPS_WALK"
       /\ sps_prop' = sps_prop + 1
       /\ result' = result
       /\ errors' = errors
       /\ record' = record
       /\ unparsed' = IF unparsed_in.null THEN unparsed
                      ELSE Append(unparsed, <<AsciiStrToUpper(TheProperty.id),
                                              CommaJoined(TheProperty.values)>>)]_vars

\* (;SZ[19];xY[1][2]) has returned true: unparsed holds the pair (XY, 1,2) and
\* the record only what SZ set.
C14_Witness ==
  /\ ReturnedTrue
  /\ ~unparsed_in.null
  /\ unparsed = <<<< <<"X", "Y">>, <<"1", ",", "2">> >>>>
  /\ record = [record_in EXCEPT !.board_width = 19, !.board_height = 19]
  /\ record_in = GameRecord

----------------------------------------------------------------------------
\* value, in upper case, is a colour letter, one more character and a number.
IsScore(value) ==
  LET re == AsciiStrToUpper(value)
  IN /\ Len(re) >= 3
     /\ re[1] \in {"B", "W"}
     /\ SimpleAtof(SubSeq(re, 3, Len(re))).ok

\* The margin of such a value, counted for black.
Margin(value) ==
  LET re == AsciiStrToUpper(value)
      number == SimpleAtof(SubSeq(re, 3, Len(re))).value
  IN IF re[1] = "B" THEN number ELSE Negated(number)

\* SimpleParseSgf is about to hand HandleProperty a property pid with one value.
AtSingle(pid) ==
  /\ AtProperty
  /\ AsciiStrToUpper(TheProperty.id) = pid
  /\ Len(TheProperty.values) = 1

(* C15: whenever HandleProperty has returned true for an RE property whose     *)
(* value is a score (B or W, one more character, a number), the record has     *)
(* resigned = false and result = the margin, positive for B and negative for   *)
(* W, whatever was handled before, earlier RE properties included.             *)
C15_ScoreClearsResigned ==
  [][(AtSingle(<<"R", "E">>) /\ IsScore(TheProperty.values[1]) /\ pc' = "SPS_WALK") =>
       /\ record'.resigned = FALSE
       /\ record'.result = Margin(TheProperty.values[1])]_vars

----------------------------------------------------------------------------
\* The first three characters of value in upper case (fewer when it is shorter).
Prefix3(value) ==
  LET re == AsciiStrToUpper(value)
  IN SubSeq(re, 1, IF Len(re) < 3 THEN Len(re) ELSE 3)

(* C16: an RE value that begins, in upper case, with B+R, B+T or B+F is        *)
(* handled without failure and leaves result = 1.2 and resigned = true; one    *)
(* that begins with W+R, W+T or W+F leaves result = -1.2 and resigned = true.  *)
C16_ResignTimeoutForfeit ==
  [][AtSingle(<<"R", "E">>) =>
       LET head == Prefix3(TheProperty.values[1])
       IN /\ head \in {<<"B", "+", "R">>, <<"B", "+", "T">>, <<"B", "+", "F">>}
               => /\ pc' = "SPS_WALK"
                  /\ record'.result = Float(12, -1)
                  /\ record'.resigned = TRUE
          /\ head \in {<<"W", "+", "R">>, <<"W", "+", "T">>, <<"W", "+", "F">>}
               => /\ pc' = "SPS_WALK"
                  /\ record'.result = Float(-12, -1)
                  /\ record'.resigned = TRUE]_vars

----------------------------------------------------------------------------
\* The values of a B or W property that are read before one of a wrong length.
RECURSIVE GoodValues(_)
GoodValues(values) ==
  IF values = <<>> \/ Len(Head(values)) \notin {0, 2} THEN <<>>
  ELSE <<Head(values)>> \o GoodValues(Tail(values))

\* The move a value of length 0 or 2 stands for: a pass, or the column and
\* the row counted from the letter a (code 97), capitals read as small letters.
MoveOf(color, value) ==
  IF value = <<>> THEN [player |-> color, pass |-> TRUE, move |-> <<-1, -1>>]
  ELSE [player |-> color, pass |-> FALSE,
        move |-> <<Ord(AsciiToLower(value[1])) - 97, Ord(AsciiToLower(value[2])) - 97>>]

(* C17: a B or W property adds to the moves of the record one move for each of *)
(* its values, in their order and with its colour: a pass at (-1, -1) for an   *)
(* empty value, the position (c0 - 'a', c1 - 'a') of the lowercased characters *)
(* for a value of two characters. A value of another length makes the call     *)
(* fail with "Bad coordinate:" and that value, the moves of the values before  *)
(* it having been added. Nothing else in the record changes.                   *)
C17_MovesAppended ==
  [][(AtProperty /\ AsciiStrToUpper(TheProperty.id) \in {<<"B">>, <<"W">>}) =>
       LET color == IF AsciiStrToUpper(TheProperty.id) = <<"B">> THEN "BLACK" ELSE "WHITE"
           values == TheProperty.values
           good == GoodValues(values)
       IN /\ record'.moves = record.moves \o [i \in DOMAIN good |-> MoveOf(color, good[i])]
          /\ [record' EXCEPT !.moves = record.moves] = record
          /\ IF Len(good) = Len(values)
             THEN pc' = "SPS_WALK" /\ errors' = errors
             ELSE /\ ReturnedFalse'
                  /\ errors' = LogError(errors, "Bad coordinate:" \o Str(values[Len(good) + 1]))]_vars

\* (;W[][bc];B[ab][abc]) has failed at abc: a white pass, white at (1, 2) and
\* black at (0, 1) were added before.
C17_Witness ==
  /\ ReturnedFalse
  /\ LastError = "Bad coordinate:abc"
  /\ record.moves = record_in.moves \o
       << [player |-> "WHITE", pass |-> TRUE, move |-> <<-1, -1>>],
          [player |-> "WHITE", pass |-> FALSE, move |-> <<1, 2>>],
          [player |-> "BLACK", pass |-> FALSE, move |-> <<0, 1>>] >>

----------------------------------------------------------------------------
(* C18: parsing keeps no state between calls: of the calls of                  *)
(* ParseToCollection a caller has made, in any order and with calls on other   *)
(* texts between them, any two on the same text returned the same value, added *)
(* the same lines to the errors and gave the same trees; and no call writes    *)
(* the vectors at namespace scope.                                             *)
C18_SameTextSameOutcome ==
  /\ \A i, j \in DOMAIN finished :
       finished[i].sgf = finished[j].sgf =>
         /\ finished[i].result = finished[j].result
         /\ finished[i].errors = finished[j].errors
         /\ finished[i].collection = finished[j].collection
         /\ finished[i].trees = finished[j].trees
  /\ handicap_stones = <<>>
  /\ moves = <<>>

\* Three calls have returned: the first and the third on one text, which
\* parses, and between them one on a text that does not.
C18_Witness ==
  /\ Len(finished) = 3
  /\ finished[1].sgf = finished[3].sgf
  /\ finished[1].result = "true"
  /\ finished[1].collection # <<>>
  /\ finished[2].result = "false"
  /\ finished[2].errors # <<>>
  /\ finished[3].result = "true"

----------------------------------------------------------------------------
\* The targets of the call FindFirst(sgf, cursor, targets, false) made in the
\* state pc of ParseToCollection.
StrictTargets ==
  CASE pc = "START" -> {"("}
    [] pc = "TREE_START" -> {";"}
    [] pc = "NEXT_TREE" -> {"(", ")"}

(* C19: FindFirst called with expect_contents = false returns npos when the    *)
(* first character at or after start that is not whitespace is not one of the  *)
(* targets, a backslash included. Stated of the calls ParseToCollection makes  *)
(* in the states START, TREE_START and NEXT_TREE, whose result is p.           *)
C19_StrictScanStops ==
  [][(pc \in {"START", "TREE_START", "NEXT_TREE"}) =>
       LET k == FirstNonSpace(sgf, cursor)
       IN (k < Len(sgf) /\ sgf[k + 1] \notin StrictTargets) => p' = NPOS]_vars

----------------------------------------------------------------------------
(* C20: ConsumeNode accepts a node without properties: when only whitespace    *)
(* lies between the start it is given and the next ";", "(" or ")", it returns *)
(* the offset of that character, logs nothing and leaves the node empty.       *)
(* Stated of the step ConsumeNode takes in its state NODE_START, which it is   *)
(* in only at the start of a node.                                             *)
C20_EmptyNodeAccepted ==
  [][pc = "CN_NODE_START" =>
       LET k == FirstNonSpace(sgf, cn_cursor)
       IN (k < Len(sgf) /\ sgf[k + 1] \in {";", "(", ")"}) =>
            /\ pc' = "CN_RETURN"
            /\ p' = k
            /\ errors' = errors
            /\ trees' = trees]_vars

----------------------------------------------------------------------------
\* The offsets at or after i of the parentheses of s that are not escaped.
ParensFrom(s, i) ==
  {k \in i..(Len(s) - 1) : s[k + 1] \in {"(", ")"} /\ ~Escaped(s, k)}

\* The least of a set of offsets that is not empty.
Least(ks) == CHOOSE k \in ks : \A other \in ks : k <= other

(* C21: in its state NEXT_TREE the tree builder passes over any text between   *)
(* the ")" it has read and the next "(" or ")" that is not escaped, and takes  *)
(* that parenthesis; it goes to END only when the rest of the text holds no    *)
(* such parenthesis.                                                           *)
C21_StrayContentTolerated ==
  [][pc = "NEXT_TREE" =>
       IF ParensFrom(sgf, cursor) = {}
       THEN pc' = "END"
       ELSE p' = Least(ParensFrom(sgf, cursor)) /\ pc' # "END"]_vars

----------------------------------------------------------------------------
\* The states of the loop of the tree builder, and of the loop of ConsumeNode.
BuilderStates == {"START", "TREE_START", "NODE_START", "NEXT_TREE"}
ConsumerStates == {"CN_NODE_START", "CN_VALUE_START", "CN_NEXT_VALUE"}

\* The places where a turn of the loop of the tree builder ends: the NODE_START
\* turn ends after ConsumeNode has returned.
BuilderTurnEnds == {"START", "TREE_START", "CN_RETURN", "NEXT_TREE"}

(* C22, as the claim states it: after every turn of the loop of the tree       *)
(* builder, the turn that leads to END included, and after every turn of the   *)
(* loop of ConsumeNode, the cursor is greater than it was before the turn.     *)
C22_CursorAlwaysGrows ==
  [][/\ (pc \in BuilderTurnEnds /\ pc' \in BuilderStates \cup {"END"}) => cursor' > cursor
     /\ (pc \in ConsumerStates /\ pc' \in ConsumerStates) => cn_cursor' > cn_cursor]_vars

(* C22, amended: after every turn of the loop of the tree builder that leads   *)
(* to another turn, and after every turn of the loop of ConsumeNode that leads *)
(* to another turn, the cursor is greater than it was before the turn and at   *)
(* most the length of the text. The turn from NEXT_TREE to END, which ends the *)
(* loop, sets the cursor to npos + 1, which is 0 on the unsigned type: there   *)
(* the cursor falls.                                                           *)
C22_CursorGrowsUntilEnd ==
  [][/\ (pc \in BuilderTurnEnds /\ pc' \in BuilderStates)
          => (cursor' > cursor /\ cursor' <= Len(sgf))
     /\ (pc \in ConsumerStates /\ pc' \in ConsumerStates)
          => (cn_cursor' > cn_cursor /\ cn_cursor' <= Len(sgf))
     /\ (pc = "NEXT_TREE" /\ pc' = "END")
          => (cursor > 0 /\ cursor' = 0)]_vars

\* The loop has ended on a text with two trees: the cursor is back at 0.
C22_Witness ==
  /\ pc = "END"
  /\ cursor = 0
  /\ p = NPOS
  /\ Len(trees[Root].children) = 2
  /\ current_tree = Root

----------------------------------------------------------------------------
\* The trees the caller holds after a call that returned true: all but the
\* virtual root.
Built == DOMAIN trees \ {Root}

----------------------------------------------------------------------------
\* How often t stands in the children of tree q.
TimesChildOf(t, q) ==
  Cardinality({i \in DOMAIN trees[q].children : trees[q].children[i] = t})

(* C24: while the tree builder runs, every tree created so far stands exactly  *)
(* once in the children of the tree its parent field names and in no other     *)
(* tree's children; the children of a tree are in the order in which the text  *)
(* opened them (the order of creation, the cursor never going back); and the   *)
(* depth of the current tree below the virtual root is the number of trees     *)
(* opened less the number closed.                                              *)
C24_TreeShape ==
  ~Done =>
    /\ trees[Root].parent = NullTree
    /\ Len(trees) = opened + 1
    /\ \A t \in Built :
         /\ trees[t].parent \in DOMAIN trees
         /\ \A q \in DOMAIN trees :
              TimesChildOf(t, q) = (IF q = trees[t].parent THEN 1 ELSE 0)
    /\ \A q \in DOMAIN trees : \A i, j \in DOMAIN trees[q].children :
         i < j => trees[q].children[i] < trees[q].children[j]
    /\ current_tree \in DOMAIN trees
    /\ Depth(current_tree) = opened - closed

\* The builder is in the second child of a tree: three opened, one closed.
C24_Witness ==
  /\ ~Done
  /\ opened = 3
  /\ closed = 1
  /\ Depth(current_tree) = 2
  /\ Len(trees[trees[current_tree].parent].children) = 2

----------------------------------------------------------------------------
\* The properties on the path SimpleParseSgf has followed, from the top-level
\* tree to the leaf, node by node in the order of the text.
SelectedProperties ==
  IF entry = "SimpleParseSgf" THEN WayProperties(tree_collection[1])
  ELSE ChainProperties(ChainTo(GetFurthestLeaf(trees, Root).leaf))

\* The moves the B and W properties of props stand for, value by value.
RECURSIVE MovesOf(_)
MovesOf(props) ==
  IF props = <<>> THEN <<>>
  ELSE LET prop == Head(props)
           id == AsciiStrToUpper(prop.id)
           color == IF id = <<"B">> THEN "BLACK" ELSE "WHITE"
       IN (IF id \in {<<"B">>, <<"W">>}
           THEN [i \in DOMAIN prop.values |-> MoveOf(color, prop.values[i])]
           ELSE <<>>) \o MovesOf(Tail(props))

\* The places in props of the properties named pid.
Named(props, pid) == {i \in DOMAIN props : AsciiStrToUpper(props[i].id) = pid}

\* What the HandleProperty of the extractor called makes of prop on its own.
Alone(prop) ==
  IF entry = "SimpleParseSgf" THEN HandleProperty(prop, record_in, unparsed_in.items).record
  ELSE HandlePropertyLenient(prop, record_in, unparsed_in.items).record

\* The field of the record that the last property named pid on the path set
\* is what that property alone sets it to.
LastWins(pid, field) ==
  LET at == Named(SelectedProperties, pid)
  IN at # {} =>
       record[field] = Alone(SelectedProperties[CHOOSE i \in at : \A j \in at : j <= i])[field]

(* C25: when SimpleParseSgf has returned true, the properties were applied in  *)
(* the order of the path from the top-level tree to the leaf, node by node and *)
(* property by property: the moves added to the record are the values of the   *)
(* B and W properties on the path in the order of the text, and a field set by *)
(* several properties holds what the last of them on the path gives.           *)
C25_PathOrder ==
  (ReturnedTrue /\ entry \in Extractors) =>
    /\ record.moves = record_in.moves \o MovesOf(SelectedProperties)
    /\ LastWins(<<"S", "Z">>, "board_width")
    /\ LastWins(<<"T", "M">>, "timelimit")
    /\ LastWins(<<"K", "M">>, "komi")
    /\ LastWins(<<"R", "E">>, "result")

\* (;RE[B+3.5](;RE[W+4])) has returned true: the result is that of the leaf.
C25_Witness ==
  /\ ReturnedTrue
  /\ entry \in Extractors
  /\ Len(SelectedProperties) = 2
  /\ Cardinality(Built) = 2
  /\ SelectedProperties[1].values = << <<"B", "+", "3", ".", "5">> >>
  /\ record.result = Float(-4, 0)

----------------------------------------------------------------------------
\* The identifiers whose branch of HandleProperty asks for exactly one value.
SingleValuedIds == KnownIds \ {<<"A", "B">>, <<"A", "W">>, <<"B">>, <<"W">>}

\* SimpleParseSgf is about to hand HandleProperty one of these with a number of
\* values other than one.
AtMiscounted ==
  /\ AtProperty
  /\ AsciiStrToUpper(TheProperty.id) \in SingleValuedIds
  /\ Len(TheProperty.values) # 1

(* C26: in the SimpleParseSgf of parser.cc, when HandleProperty returns false  *)
(* for a property the call returns false at once, with the record and the      *)
(* unparsed list as that HandleProperty left them, and nothing changes them    *)
(* after the return; a property with a single-valued identifier and a number   *)
(* of values other than one leaves the record and the unparsed list as they    *)
(* were before it.                                                             *)
C26_FailureStops ==
  [][/\ (AtProperty /\ ~HandleProperty(TheProperty, record, unparsed).ok) =>
          /\ ReturnedFalse'
          /\ record' = HandleProperty(TheProperty, record, unparsed).record
          /\ unparsed' = HandleProperty(TheProperty, record, unparsed).unparsed
          /\ UNCHANGED <<sps_current, sps_prop>>
     /\ AtMiscounted => (ReturnedFalse' /\ UNCHANGED <<record, unparsed>>)
     /\ ReturnedFalse => UNCHANGED <<record, unparsed, result, pc>>]_vars

\* (;TM[5];TM[1][2]) has returned false at the second property, of two values,
\* with the time limit the first one set.
C26_Witness ==
  /\ ReturnedFalse
  /\ entry = "SimpleParseSgf"
  /\ LastError = "Bad TM property."
  /\ sps_prop = 2
  /\ record.timelimit = 5

----------------------------------------------------------------------------
(* C27: when HandleProperty is given an SZ property with one value that        *)
(* SimpleAtoi reads as the int n, it returns true and leaves board_width and   *)
(* board_height equal to n, for every such n.                                  *)
C27_SizeStored ==
  [][(AtSingle(<<"S", "Z">>) /\ SimpleAtoi(TheProperty.values[1]).ok) =>
       /\ pc' = "SPS_WALK"
       /\ record'.board_width = SimpleAtoi(TheProperty.values[1]).value
       /\ record'.board_height = SimpleAtoi(TheProperty.values[1]).value]_vars

----------------------------------------------------------------------------
\* Both coordinates of a position are those of a letter, a to z.
OnLetters(pos) == pos[1] \in 0..25 /\ pos[2] \in 0..25

(* C30: when SimpleParseSgf has returned true, every position in black_stones  *)
(* and in white_stones and every move that is not a pass has both coordinates  *)
(* in 0..25.                                                                   *)
C30_PositionsOnLetters ==
  (ReturnedTrue /\ entry \in Extractors) =>
    /\ \A i \in DOMAIN record.black_stones : OnLetters(record.black_stones[i])
    /\ \A i \in DOMAIN record.white_stones : OnLetters(record.white_stones[i])
    /\ \A i \in DOMAIN record.moves :
         ~record.moves[i].pass => OnLetters(record.moves[i].move)

----------------------------------------------------------------------------
\* The later SimpleParseSgf is about to hand a property to its HandleProperty.
AtLenientProperty ==
  /\ pc = "SPF_WALK"
  /\ sps_current # NullTree
  /\ sps_prop <= Len(Flatten(trees[sps_current].sequence))

\* The walk has gone on to the next property with nothing reported and only
\* this field of the record changed, to value.
WentOnWith(field, value) ==
  /\ pc' = "SPF_WALK"
  /\ result' = "running"
  /\ sps_prop' = sps_prop + 1
  /\ errors' = errors
  /\ unparsed' = unparsed
  /\ record' = [record EXCEPT ![field] = value]

(* C28: in the later SimpleParseSgf, a TM property with one value that is not  *)
(* an int sets timelimit to 0, and a KM property with one value that is not a  *)
(* number sets komi to 6.5; neither fails, neither adds to errors, and the     *)
(* walk goes on to the next property. A TM or KM with a number of values other *)
(* than one makes the call return false with "Bad TM property." or "Bad Komi   *)
(* property.", the record as it was.                                           *)
C28_LenientDefaults ==
  [][AtLenientProperty =>
       LET id == AsciiStrToUpper(TheProperty.id)
           values == TheProperty.values
       IN /\ (id = <<"T", "M">> /\ Len(values) = 1 /\ ~SimpleAtoi(values[1]).ok)
               => WentOnWith("timelimit", 0)
          /\ (id = <<"K", "M">> /\ Len(values) = 1 /\ ~SimpleAtof(values[1]).ok)
               => WentOnWith("komi", Float(65, -1))
          /\ (id = <<"T", "M">> /\ Len(values) # 1)
               => (FailedWith("Bad TM property.")' /\ record' = record)
          /\ (id = <<"K", "M">> /\ Len(values) # 1)
               => (FailedWith("Bad Komi property.")' /\ record' = record)]_vars

\* (;TM[x];KM[x]) has returned true with both defaults and no message.
C28_Witness ==
  /\ ReturnedTrue
  /\ entry = "SimpleParseSgfFurthest"
  /\ record.timelimit = 0
  /\ record.komi = Float(65, -1)
  /\ errors = <<>>
  /\ Cardinality(Built) = 1

----------------------------------------------------------------------------
\* The offsets from i on of the unescaped characters that end a value's gap.
EndsFrom(s, i) ==
  {k \in i..(Len(s) - 1) : s[k + 1] \in {"[", ";", "(", ")"} /\ ~Escaped(s, k)}

\* ConsumeNode stands after the "]" of a value, and text other than whitespace
\* comes before the next ";", "(" or ")", with no "[" in between.
AtStrayGap ==
  /\ pc = "CN_NEXT_VALUE"
  /\ EndsFrom(sgf, cn_cursor) # {}
  /\ LET d == Least(EndsFrom(sgf, cn_cursor))
     IN /\ sgf[d + 1] # "["
        /\ \E k \in cn_cursor..(d - 1) : ~IsSpace(sgf[k + 1])

(* C29: when ConsumeNode, after the "]" of a value, finds text other than      *)
(* whitespace before a ";", "(" or ")", it returns npos and the errors get the *)
(* line "Non-empty contents after the end of a value."; and whenever           *)
(* ConsumeNode has returned npos, the tree builder returns false.              *)
C29_StrayGapFails ==
  [][/\ AtStrayGap =>
          /\ pc' = "CN_RETURN"
          /\ p' = NPOS
          /\ trees' = trees
          /\ ~errors_in.null =>
               errors' = Append(errors, "Non-empty contents after the end of a value.")
     /\ (pc = "CN_RETURN" /\ p = NPOS) => ReturnedFalse']_vars

\* (;a[a]a) has returned false with that line among the errors.
C29_Witness ==
  /\ ReturnedFalse
  /\ sgf = <<"(", ";", "a", "[", "a", "]", "a", ")">>
  /\ Reported("Non-empty contents after the end of a value.")
  /\ LastError = "Error in parsing a node."

----------------------------------------------------------------------------
\* The text from offset i to its end.
RestFrom(s, i) == SubSeq(s, i + 1, Len(s))

(* C31: the tree builder returns true only when it has read the whole text:    *)
(* when the loop ends with the current tree the root, so that true is          *)
(* returned, everything after the last ")" it has processed (in NEXT_TREE the  *)
(* cursor stands right after it) is whitespace.                                *)
C31_WholeInputConsumed ==
  [][(pc = "NEXT_TREE" /\ pc' = "END" /\ current_tree = Root) =>
       OnlySpace(RestFrom(sgf, cursor))]_vars

----------------------------------------------------------------------------
\* What SimpleParseSgf leaves of this text in a default-constructed record and
\* an empty unparsed list.
FromTextAlone == HandleAll(WayProperties(tree_collection[1]), GameRecord, <<>>)

(* C32: the record SimpleParseSgf leaves depends on the text alone: when it    *)
(* has returned true, the record and the unparsed list are what the same call  *)
(* leaves in a default-constructed record and an empty list, whether the       *)
(* record it was given was new or had been filled by an earlier call, on the   *)
(* same text or on another.                                                    *)
C32_RecordFromTextAlone ==
  (ReturnedTrue /\ entry = "SimpleParseSgf") =>
    /\ record = FromTextAlone.record
    /\ unparsed = FromTextAlone.unparsed

====
